---- MODULE Spec2Model ----
(***************************************************************************)
(* The story site's file-backed content store (file_service.js) and the    *)
(* request handlers of app.js that read and write it, as a state machine.  *)
(* One story folder is modelled; its chapter metadata directory            *)
(* data/chapters/<folder>/ and its content files <folder>/<root>.html are   *)
(* the shared state, and every request is a process that advances from one  *)
(* await to the next.  The chapter routes (Spec) are run by a logged-in     *)
(* session; the story-level routes on the catalog data/stories.json         *)
(* (StorySpec) are run with and without one.  WriteSpec is the routes that  *)
(* write chapters, with an unlink that may fail; LoginSpec is the login and *)
(* logout routes; LoadSpec is the evaluation of app.js, statement by        *)
(* statement, when the server starts; PatchSpec is the shell scripts that   *)
(* add the text-to-speech button to the chapter pages.  Each specification  *)
(* holds the state of the others at rest.                                   *)
(***************************************************************************)
EXTENDS Integers, Sequences, FiniteSets, TLC

(***************************************************************************)
(* Bounds of the model.                                                    *)
(***************************************************************************)
\* Requests handled in one behaviour.
MaxRequests == 3
\* Length of the over-long digit string submitted as a chapter number.
HugeLen == 400
\* Digit strings up to this length are evaluated exactly.
MaxExactDigits == 9

\* Every decimal integer with at least this many significant digits is
\* larger than Number.MAX_VALUE (about 1.797e308): parseInt returns Infinity.
InfDigits == 310

\* Requests in flight at the same time.
Slots == {1, 2}

(***************************************************************************)
(* JavaScript values.                                                      *)
(***************************************************************************)
\* A Number: finite (t = "num"), +-Infinity (t = "inf", n its sign) or NaN;
\* the JSON value null shares the shape.
Num(n) == [t |-> "num", n |-> n]
Infinity == [t |-> "inf", n |-> 1]
NegInfinity == [t |-> "inf", n |-> -1]
NaN == [t |-> "nan", n |-> 0]
Null == [t |-> "null", n |-> 0]

\* isNaN(x)
isNaN(x) == x.t = "nan"

\* x <= 0 on Numbers
LeqZero(x) == \/ x.t = "num" /\ x.n <= 0
              \/ x.t = "inf" /\ x.n < 0

\* a === b on Numbers and null
StrictEq(a, b) == a.t # "nan" /\ a = b

\* ToNumber, as the subtraction in the sort comparator applies it
\* (null becomes 0); only finite numbers and null are ever stored.
ToNumber(v) == IF v.t = "num" THEN v.n ELSE 0

(***************************************************************************)
(* Text submitted in a form field: a sequence of runs, each a character c   *)
(* repeated k times.                                                        *)
(***************************************************************************)
Run(c, k) == [c |-> c, k |-> k]
Txt(c) == <<Run(c, 1)>>
Digits == {"0", "1", "2", "3", "4", "5", "6", "7", "8", "9"}

DigitVal(c) ==
    CASE c = "0" -> 0 [] c = "1" -> 1 [] c = "2" -> 2 [] c = "3" -> 3
      [] c = "4" -> 4 [] c = "5" -> 5 [] c = "6" -> 6 [] c = "7" -> 7
      [] c = "8" -> 8 [] c = "9" -> 9

\* The text without its first character.
DropChar(s) == IF s[1].k = 1 THEN Tail(s) ELSE <<Run(s[1].c, s[1].k - 1)>> \o Tail(s)

\* The longest prefix of s made of decimal digits.
RECURSIVE DigitPrefix(_)
DigitPrefix(s) ==
    IF s = <<>> \/ s[1].c \notin Digits THEN <<>>
    ELSE <<s[1]>> \o DigitPrefix(Tail(s))

\* A digit string without its leading zeros.
RECURSIVE StripZeros(_)
StripZeros(p) ==
    IF p # <<>> /\ p[1].c = "0" THEN StripZeros(Tail(p)) ELSE p

\* The number of characters of a text.
RECURSIVE TextLen(_)
TextLen(s) == IF s = <<>> THEN 0 ELSE s[1].k + TextLen(Tail(s))

\* The value of a digit string, read left to right from acc.
RECURSIVE DigitsValue(_, _)
DigitsValue(p, acc) ==
    IF p = <<>> THEN acc
    ELSE DigitsValue(DropChar(p), 10 * acc + DigitVal(p[1].c))

\* parseInt(s, 10): an optional sign, then the longest run of digits; NaN
\* when there is none; the mathematical value rounded to a Number.
parseInt10(s) ==
    LET signed == s # <<>> /\ s[1].c \in {"-", "+"}
        neg == signed /\ s[1].c = "-"
        body == IF signed THEN DropChar(s) ELSE s
        sig == StripZeros(DigitPrefix(body))
    IN  IF DigitPrefix(body) = <<>> THEN NaN
        ELSE CASE TextLen(sig) >= InfDigits ->
                    IF neg THEN NegInfinity ELSE Infinity
               [] TextLen(sig) <= MaxExactDigits ->
                    Num(IF neg THEN 0 - DigitsValue(sig, 0) ELSE DigitsValue(sig, 0))

(***************************************************************************)
(* File names, chapter records and files.                                  *)
(***************************************************************************)
\* Digits a content file name needs at least: /^\d{4,}\.html$/.
MinNameDigits == 4

\* A file name <root>.<ext>.
Name(root, ext) == [root |-> root, ext |-> ext]

\* The chapter file roots of the model: "0001", "0002", "0003".
R1 == <<Run("0", 3), Run("1", 1)>>
R2 == <<Run("0", 3), Run("2", 1)>>
R3 == <<Run("0", 3), Run("3", 1)>>
Roots == {R1, R2, R3}
\* A root the file name pattern rejects: "7".
ShortRoot == <<Run("7", 1)>>

\* The one story folder of the model.
Folder == "x"

\* fileNameRegex.test(original_file_name)
fileNameRegex(name) ==
    /\ name.ext = "html"
    /\ DigitPrefix(name.root) = name.root
    /\ TextLen(name.root) >= MinNameDigits

\* original_file_name.replace('.html', '.json')
ReplaceHtmlByJson(name) == IF name.ext = "html" THEN Name(name.root, "json") ELSE name

\* path.join(story_folder_name, original_file_name)
PathJoin(folder, name) == [dir |-> folder, file |-> name]

\* A chapter metadata record.
Chapter(title, number, name, cpath) ==
    [title |-> title, chapter_number |-> number,
     original_file_name |-> name, content_path |-> cpath]

NoRec == Chapter("", Null, Name(<<>>, ""), PathJoin("", Name(<<>>, "")))

\* A metadata file: absent, holding the text JSON.stringify produced, or
\* holding text that is no JSON (a write that failed after truncating it).
Absent == [kind |-> "absent", val |-> NoRec]
Torn == [kind |-> "torn", val |-> NoRec]

\* JSON.stringify of a Number: Infinity and NaN are written as null.
JsonNumber(x) == IF x.t = "num" THEN x ELSE Null

\* JSON.stringify(record, null, 4)
JSONstringify(rec) ==
    [kind |-> "json", val |-> [rec EXCEPT !.chapter_number = JsonNumber(@)]]

\* JSON.parse(fileContent): the value, or a SyntaxError.
JSONparse(file) ==
    IF file.kind = "json" THEN [ok |-> TRUE, val |-> file.val]
    ELSE [ok |-> FALSE, val |-> NoRec]

\* An optional value (null or a record) as a sequence of length 0 or 1.
None == <<>>
Some(v) == <<v>>

(***************************************************************************)
(* file_service.js                                                         *)
(***************************************************************************)
\* getStoryByFolderName: the first catalog entry with the folder name.
getStoryByFolderName(cat, folderName) ==
    LET hits == {k \in 1..Len(cat) : cat[k].folder_name = folderName}
    IN  IF hits = {} THEN None
        ELSE Some(cat[CHOOSE k \in hits : \A j \in hits : k <= j])

\* The outcome of a call: a value, undefined, or a thrown error with its code.
Ok(v) == [st |-> "ok", val |-> v, code |-> ""]
Undefined == [st |-> "undefined", val |-> NoRec, code |-> ""]
Throw(code) == [st |-> "throw", val |-> NoRec, code |-> code]

\* A catch clause that rethrows every error.
CatchDetailsRethrow(code) == Throw(code)

\* The catch clause of getChapterDetails.
CatchDetails(code) == IF code = "ENOENT" THEN Undefined ELSE Throw(code)

\* getChapterDetails: the read fails with ENOENT when the file is absent, the
\* parse with a SyntaxError when its text is no JSON.
getChapterDetails(m, root) ==
    IF m[root].kind = "absent" THEN CatchDetails("ENOENT")
    ELSE IF JSONparse(m[root]).ok THEN Ok(JSONparse(m[root]).val)
    ELSE CatchDetails("SyntaxError")

\* A content file: absent, or holding text.
NoContent == [kind |-> "absent", text |-> ""]
Html(text) == [kind |-> "text", text |-> text]

\* The outcome of readChapterContent.
ContentOk(text) == [st |-> "ok", text |-> text, code |-> ""]
ContentThrow(code) == [st |-> "throw", text |-> "", code |-> code]

\* The content file a content_path names (no file when the path leaves the
\* story's content folder).
ContentAt(c, cpath) ==
    IF cpath.dir = Folder /\ cpath.file.ext = "html" /\ cpath.file.root \in DOMAIN c
    THEN c[cpath.file.root] ELSE NoContent

\* readChapterContent throwing one and the same error for every failed read.
readChapterContentOneError(c, cpath, fault) ==
    IF ContentAt(c, cpath).kind = "absent" \/ fault # "" THEN ContentThrow("ENOENT")
    ELSE ContentOk(ContentAt(c, cpath).text)

\* readChapterContent: the text, or the error of the read rethrown as it is
\* (fault is the code of an I/O failure other than ENOENT, "" for none).
readChapterContent(c, cpath, fault) ==
    IF ContentAt(c, cpath).kind = "absent" THEN ContentThrow("ENOENT")
    ELSE IF fault # "" THEN ContentThrow(fault)
    ELSE ContentOk(ContentAt(c, cpath).text)

\* chapters.sort((a, b) => a.chapter_number - b.chapter_number): the sort is
\* stable, so x goes behind every element that does not compare greater.
RECURSIVE InsertChapter(_, _)
InsertChapter(s, x) ==
    IF s = <<>> THEN <<x>>
    ELSE IF ToNumber(Head(s).chapter_number) - ToNumber(x.chapter_number) > 0
         THEN <<x>> \o s
         ELSE <<Head(s)>> \o InsertChapter(Tail(s), x)

RECURSIVE SortChapters(_)
SortChapters(s) ==
    IF s = <<>> THEN <<>>
    ELSE InsertChapter(SortChapters(SubSeq(s, 1, Len(s) - 1)), s[Len(s)])

\* The orders in which a directory listing can return a set of files.
Listings(files) ==
    {o \in [1..Cardinality(files) -> files] : \A f \in files : \E k \in DOMAIN o : o[k] = f}

\* files.filter(file => file.endsWith('.json')) of the listing of the
\* chapter directory: the roots of its .json files.
JsonFiles(m) == {r \in DOMAIN m : m[r].kind # "absent"}

\* The rejections the reads of the listed files can end in: ENOENT for a file
\* that is gone, SyntaxError for one that does not parse.
Rejections(m, files) ==
    {IF m[r].kind = "absent" THEN "ENOENT" ELSE "SyntaxError" :
        r \in {f \in files : m[f].kind # "json"}}

\* The result of getChaptersForStory.
Chapters(list) == [st |-> "ok", list |-> list, code |-> ""]
ChaptersThrow(code) == [st |-> "throw", list |-> <<>>, code |-> code]

\* A catch clause that rethrows every error.
CatchChaptersRethrow(code) == ChaptersThrow(code)

\* The catch clause of getChaptersForStory.
CatchChapters(code) ==
    IF code = "ENOENT" THEN Chapters(<<>>) ELSE ChaptersThrow(code)

\* The reads of the listed files and the sort: order is the listing order,
\* rejection the first rejection Promise.all sees ("" when every read and
\* parse succeeds).
ReadChapters(m, order, rejection) ==
    IF rejection # "" THEN CatchChapters(rejection)
    ELSE Chapters(SortChapters([k \in DOMAIN order |-> JSONparse(m[order[k]]).val]))

(***************************************************************************)
(* The reader's chapter navigation (GET /stories/:f/chapters/:root).       *)
(***************************************************************************)
\* allChapters.findIndex(chap => chap.original_file_name === name), 0-based,
\* -1 when no element matches.
findIndex(all, name) ==
    LET hits == {k \in 1..Len(all) : all[k].original_file_name = name}
    IN  IF hits = {} THEN -1
        ELSE (CHOOSE k \in hits : \A j \in hits : k <= j) - 1

\* if (currentChapterIndex > 0) previousChapter = allChapters[currentChapterIndex - 1]
previousChapter(all, idx) == IF idx > 0 THEN Some(all[idx]) ELSE None

\* nextChapter without the step to the successor.
nextChapterSameIndex(all, idx) == IF idx < Len(all) - 1 THEN Some(all[idx + 1]) ELSE None

\* if (currentChapterIndex < allChapters.length - 1) nextChapter = allChapters[currentChapterIndex + 1]
nextChapter(all, idx) == IF idx < Len(all) - 1 THEN Some(all[idx + 2]) ELSE None

(***************************************************************************)
(* The state.                                                              *)
(***************************************************************************)
VARIABLES
    catalog,   \* data/stories.json, parsed: the sequence of story records
    chapDir,   \* whether data/chapters/<Folder>/ exists
    meta,      \* data/chapters/<Folder>/<root>.json, by root
    content,   \* <Folder>/<root>.html, by root
    started,   \* requests accepted so far
    req,       \* by slot: the request it handles and how far it has come
    otherDirs, \* the folders other than Folder with a directory data/chapters/<folder>/
    adm,       \* by slot: the story-level request it handles and how far it has come
    login,     \* the admin credentials of the environment, a browser session, its last request
    load,      \* the evaluation of app.js: the next statement, the names bound so far
    page       \* a static HTML page and the patch scripts run on it

vars == <<catalog, chapDir, meta, content, started, req, otherDirs, adm, login, load, page>>
store == <<catalog, chapDir, meta, content>>
admin == <<otherDirs, adm>>
aside == <<login, load, page>>

\* The catalog entry of the modelled story.
StoryX == [id |-> Folder, title |-> "Story", folder_name |-> Folder, description |-> ""]

\* What processContent writes for the content file <root>.html: the number
\* is parseInt of the file name's digits.
ImportedChapter(root) ==
    Chapter("Untitled Chapter", parseInt10(root), Name(root, "html"),
            PathJoin(Folder, Name(root, "html")))

\* The response of a request.
NoResp == [status |-> 0, location |-> "", error |-> "", chapters |-> <<>>,
           metadata |-> None, previousChapter |-> None, nextChapter |-> None]

\* A slot: the request's inputs, its locals, its response, and what its
\* calls into file_service saw and returned (wrote: the metadata record a
\* completed write was given; readBack: what getChapterDetails returns for
\* the request's root right after that write).
Idle ==
    [kind |-> "idle", pc |-> "idle", root |-> <<>>, name |-> Name(<<>>, ""),
     title |-> "", num |-> <<>>, html |-> "",
     order |-> <<>>, existing |-> NoRec, resp |-> NoResp,
     sawDir |-> "", listed |-> {}, sawRejections |-> {}, chaptersResult |-> None,
     sawMeta |-> None, details |-> None,
     sawContent |-> None, contentResult |-> None,
     wrote |-> None, readBack |-> None]

\* The response of a story-level request (stories: the list a page shows).
NoAdminResp == [status |-> 0, location |-> "", error |-> "", stories |-> <<>>]

\* A slot of the story-level routes: the route, the session's user ("" for
\* none), the request's parameters and body, its local copy of the catalog
\* (existingStories), its response, and what it saw and did (sawCatalog: the
\* catalog getStories read; wroteCatalog: its fs.writeFile of the catalog is
\* done).
NoAdmin ==
    [kind |-> "idle", pc |-> "idle", route |-> "", user |-> "",
     folder |-> "", title |-> "", description |-> "", bodyFolder |-> "",
     existingStories |-> <<>>, sawCatalog |-> None, wroteCatalog |-> FALSE,
     resp |-> NoAdminResp]

\* Codes of I/O failures other than ENOENT ("" is no failure): a metadata
\* write and a content read can fail.
Faults == {"", "EIO"}

\* Form inputs.  A submitted form is a record of its fields; the forms of the
\* model are the well-formed ones and one form for each validation to reject.
Form(title, num, name, html) == [title |-> title, num |-> num, name |-> name, html |-> html]
HugeNumber == <<Run("9", HugeLen)>>
GoodNumbers == {Txt("5"), HugeNumber}
BadForms(name) ==
    {Form("", Txt("5"), name, "<p>a</p>"),
     Form("A", Txt("0"), name, "<p>a</p>"),
     Form("A", Txt("x"), name, "<p>a</p>")}
CreateForms ==
    {Form("A", num, Name(root, "html"), "<p>a</p>") : num \in GoodNumbers, root \in {R1, R2}}
        \cup BadForms(Name(R1, "html"))
        \cup {Form("A", Txt("5"), Name(ShortRoot, "html"), "<p>a</p>")}
\* An edit request: the chapter_filename_root of its URL and its form, whose
\* original_file_name field is read-only in the page and may still differ.
EditRequests ==
    {[root |-> root, form |-> Form("A", num, Name(root, "html"), "<p>a</p>")] :
        num \in GoodNumbers, root \in {R1, R2}}
        \cup {[root |-> R1, form |-> f] : f \in BadForms(Name(R1, "html"))}
        \cup {[root |-> R1, form |-> Form("A", Txt("5"), Name(R2, "html"), "<p>a</p>")]}

\* The login state before any request: the credentials of the environment
\* (ADMIN_USERNAME and ADMIN_PASSWORD, None for a variable that is not set),
\* session.user (None, or the user object, which is its username, None for
\* undefined) and the session's last request with its response.
NoLogin ==
    [adminUsername |-> None, adminPassword |-> None, user |-> None,
     route |-> "", username |-> None, password |-> None,
     status |-> 0, location |-> ""]

\* The variables of an environment (process.env, or the .env file): None for
\* a variable that is not set.
Env(port, secret, nodeEnv) == [PORT |-> port, SESSION_SECRET |-> secret, NODE_ENV |-> nodeEnv]

\* No statement of app.js evaluated: the next statement (pc), the names bound
\* so far, how the evaluation ended, process.env and the .env file, and what
\* the statements computed (port, the session's secret and cookie.secure,
\* the number of routes registered).
NoLoad ==
    [pc |-> 0, bound |-> {}, outcome |-> "",
     env |-> Env(None, None, None), dotenv |-> Env(None, None, None),
     port |-> "", secret |-> "", secure |-> FALSE, routes |-> 0]

\* No page under the patch scripts: an empty file (its lines; eol: the last
\* line ends with a newline), no script run on it (last), and the script not
\* run twice in a row (again).
NoPage == [lines |-> <<>>, eol |-> TRUE, last |-> "", again |-> FALSE]

\* Login, load and page are not looked at by the routes on the stores.
AsideAtRest == login = NoLogin /\ load = NoLoad /\ page = NoPage

\* The states the server starts in, the catalog being one of catalogs.
InitWith(catalogs) ==
    /\ catalog \in catalogs
    /\ chapDir \in BOOLEAN
    /\ \E imported \in {{}, Roots} :
          /\ imported # {} => chapDir
          /\ meta = [r \in Roots |-> IF r \in imported
                                     THEN JSONstringify(ImportedChapter(r)) ELSE Absent]
          /\ content = [r \in Roots |-> IF r \in imported THEN Html("<p>0</p>") ELSE NoContent]
    /\ started = 0
    /\ req = [i \in Slots |-> Idle]
    /\ otherDirs = {}
    /\ adm = [i \in Slots |-> NoAdmin]
    /\ AsideAtRest

\* The catalog lists the modelled story.
Init == InitWith({<<StoryX>>})

\* A slot is free for a new request; of the free slots the lowest takes it.
Free(i) ==
    /\ req[i].pc \in {"idle", "done"}
    /\ \A j \in Slots : j < i => req[j].pc \notin {"idle", "done"}
    /\ started < MaxRequests

\* The slots once a response has been delivered: a finished request is gone
\* with the next step of any request.
Settled == [j \in Slots |-> IF req[j].pc = "done" THEN Idle ELSE req[j]]

\* The request of slot i ends with response r.
Finish(i, r, upd) ==
    req' = [Settled EXCEPT ![i] = [upd EXCEPT !.pc = "done", !.resp = r, !.title = "",
                                              !.num = <<>>, !.html = "", !.order = <<>>,
                                              !.existing = NoRec]]

\* A handler that goes on after its checks holds the chapter list no longer.
Forget(r) ==
    [r EXCEPT !.order = <<>>, !.sawDir = "", !.listed = {}, !.sawRejections = {},
              !.chaptersResult = None]

\* res.redirect, res.render and res.status(n).render with an error message.
Redirect(loc) == [NoResp EXCEPT !.status = 302, !.location = loc]
Render(status, error) == [NoResp EXCEPT !.status = status, !.error = error]
ChaptersPage == "/admin/stories/x/chapters"

(***************************************************************************)
(* Create chapter: POST /admin/stories/:story_folder_name/chapters         *)
(***************************************************************************)
\* existingChapters.some(chap => chap.chapter_number === numChapterNumber)
NumberTaken(list, n) == \E k \in 1..Len(list) : StrictEq(list[k].chapter_number, n)

\* existingChapters.some(chap => chap.original_file_name === original_file_name)
NameTaken(list, name) == \E k \in 1..Len(list) : list[k].original_file_name = name

\* The record with a content_path that leaves the story folder out.
CreateRecordBarePath(r) ==
    Chapter(r.title, parseInt10(r.num), r.name, PathJoin("", r.name))

\* The metadata record create-chapter builds.
CreateRecord(r) ==
    Chapter(r.title, parseInt10(r.num), r.name, PathJoin(Folder, r.name))

\* The metadata file create-chapter writes: named after original_file_name.
CreateMetaRoot(r) == ReplaceHtmlByJson(r.name).root

\* The request arrives; the handler runs up to the call of getChaptersForStory.
StartCreate(i) ==
    /\ Free(i)
    /\ started' = started + 1
    /\ UNCHANGED <<store, admin, aside>>
    /\ \E f \in CreateForms :
          LET r == [Idle EXCEPT !.kind = "create", !.root = f.name.root, !.name = f.name,
                                !.title = f.title, !.num = f.num, !.html = f.html]
          IN  IF getStoryByFolderName(catalog, Folder) = None
                   THEN Finish(i, Render(404, "story not found"), r)
              ELSE IF f.title = "" \/ f.num = <<>> \/ f.html = ""
                   THEN Finish(i, Render(200, "fields required"), r)
              ELSE IF isNaN(parseInt10(f.num)) \/ LeqZero(parseInt10(f.num))
                   THEN Finish(i, Render(200, "number not positive"), r)
              ELSE IF ~fileNameRegex(f.name)
                   THEN Finish(i, Render(200, "bad file name"), r)
              ELSE req' = [Settled EXCEPT ![i] = [r EXCEPT !.pc = "readdir"]]

\* The uniqueness checks on the list getChaptersForStory returned.
CreateAfterList(i, r, res) ==
    IF res.st = "throw" THEN Finish(i, Render(500, "error"), r)
    ELSE IF NumberTaken(res.list, parseInt10(r.num))
         THEN Finish(i, Render(200, "number exists"), r)
    ELSE IF NameTaken(res.list, r.name)
         THEN Finish(i, Render(200, "name exists"), r)
    ELSE req' = [Settled EXCEPT ![i] = [Forget(r) EXCEPT !.pc = "c_access"]]

\* The access check that replaces the file it finds before it rejects.
CreateAccessOverwrites(i) ==
    /\ req[i].pc = "c_access"
    /\ UNCHANGED <<catalog, chapDir, meta, started, admin, aside>>
    /\ IF content[req[i].root].kind # "absent"
       THEN /\ content' = [content EXCEPT ![req[i].root] = Html(req[i].html)]
            /\ Finish(i, Render(200, "content exists"), req[i])
       ELSE /\ UNCHANGED content
            /\ req' = [Settled EXCEPT ![i].pc = "c_content"]

\* fs.access(contentFilePath): the content file must not exist yet.
CreateAccess(i) ==
    /\ req[i].pc = "c_access"
    /\ UNCHANGED <<store, started, admin, aside>>
    /\ IF content[req[i].root].kind # "absent"
       THEN Finish(i, Render(200, "content exists"), req[i])
       ELSE req' = [Settled EXCEPT ![i].pc = "c_content"]

\* fs.mkdir(storyContentDir) and fs.writeFile(contentFilePath, content)
CreateWriteContent(i) ==
    /\ req[i].pc = "c_content"
    /\ UNCHANGED <<catalog, chapDir, meta, started, admin, aside>>
    /\ content' = [content EXCEPT ![req[i].root] = Html(req[i].html)]
    /\ req' = [Settled EXCEPT ![i].pc = "c_meta"]

\* fs.mkdir(metadataDirPath), fs.writeFile(metadataFilePath, ...), redirect.
\* A write that fails has truncated the file.
CreateWriteMeta(i) ==
    /\ req[i].pc = "c_meta"
    /\ UNCHANGED <<catalog, content, started, admin, aside>>
    /\ chapDir' = TRUE
    /\ \E fault \in Faults :
          IF fault # ""
          THEN /\ meta' = [meta EXCEPT ![CreateMetaRoot(req[i])] = Torn]
               /\ Finish(i, Render(500, "error"), req[i])
          ELSE /\ meta' = [meta EXCEPT ![CreateMetaRoot(req[i])] =
                                          JSONstringify(CreateRecord(req[i]))]
               /\ Finish(i, Redirect(ChaptersPage),
                         [req[i] EXCEPT !.wrote = Some(CreateRecord(req[i])),
                                        !.readBack = Some(getChapterDetails(meta', req[i].root))])

(***************************************************************************)
(* Edit chapter: POST /admin/stories/:f/chapters/edit/:chapter_filename_root *)
(***************************************************************************)
\* allChapters.some(chap => chap.chapter_number === numChapterNumber &&
\*                          chap.original_file_name !== current_original_file_name)
NumberTakenByOther(list, n, name) ==
    \E k \in 1..Len(list) :
        StrictEq(list[k].chapter_number, n) /\ list[k].original_file_name # name

\* const current_original_file_name = `${chapter_filename_root}.html`
CurrentName(r) == Name(r.root, "html")

\* The record with the original_file_name of the form taken over.
EditRecordFromForm(r) ==
    [r.existing EXCEPT !.title = r.title, !.chapter_number = parseInt10(r.num),
                       !.original_file_name = r.name]

\* { ...existingChapterDetails, title: title, chapter_number: numChapterNumber }
EditRecord(r) ==
    [r.existing EXCEPT !.title = r.title, !.chapter_number = parseInt10(r.num)]

\* The request arrives; the handler looks the story up.
StartEdit(i) ==
    /\ Free(i)
    /\ started' = started + 1
    /\ UNCHANGED <<store, admin, aside>>
    /\ \E e \in EditRequests :
          LET r == [Idle EXCEPT !.kind = "edit", !.root = e.root, !.name = e.form.name,
                                !.title = e.form.title, !.num = e.form.num,
                                !.html = e.form.html]
          IN  IF getStoryByFolderName(catalog, Folder) = None
                   THEN Finish(i, Render(404, "story not found"), r)
              ELSE req' = [Settled EXCEPT ![i] = [r EXCEPT !.pc = "e_details"]]

\* getChapterDetails of the chapter to edit, then the validation of the form.
EditDetails(i) ==
    /\ req[i].pc = "e_details"
    /\ UNCHANGED <<store, started, admin, aside>>
    /\ LET d == getChapterDetails(meta, req[i].root)
           r == [req[i] EXCEPT !.sawMeta = Some(meta[req[i].root]), !.details = Some(d)]
       IN     IF d.st = "throw" THEN Finish(i, Render(500, "error"), r)
              ELSE IF d.st = "undefined" THEN Finish(i, Render(404, "chapter not found"), r)
              ELSE IF r.title = "" \/ r.num = <<>> \/ r.html = ""
                   THEN Finish(i, Render(200, "fields required"), r)
              ELSE IF isNaN(parseInt10(r.num)) \/ LeqZero(parseInt10(r.num))
                   THEN Finish(i, Render(200, "number not positive"), r)
              ELSE req' = [Settled EXCEPT ![i] = [r EXCEPT !.pc = "readdir", !.existing = d.val]]

\* The uniqueness check (excluding the chapter itself).
EditAfterList(i, r, res) ==
    IF res.st = "throw" THEN Finish(i, Render(500, "error"), r)
    ELSE IF NumberTakenByOther(res.list, parseInt10(r.num), CurrentName(r))
         THEN Finish(i, Render(200, "number exists"), r)
    ELSE req' = [Settled EXCEPT ![i] = [Forget(r) EXCEPT !.pc = "e_content"]]

\* fs.writeFile(path.join(__dirname, existingChapterDetails.content_path), content)
EditWriteContent(i) ==
    /\ req[i].pc = "e_content"
    /\ UNCHANGED <<catalog, chapDir, meta, started, admin, aside>>
    /\ content' = [content EXCEPT ![req[i].existing.content_path.file.root] = Html(req[i].html)]
    /\ req' = [Settled EXCEPT ![i].pc = "e_meta"]

\* fs.writeFile(metadataFilePath, JSON.stringify(updatedChapterMetadata)), redirect.
\* The write fails with ENOENT when the chapter directory is gone; a write that
\* fails otherwise has truncated the file.
EditWriteMeta(i) ==
    /\ req[i].pc = "e_meta"
    /\ UNCHANGED <<catalog, chapDir, content, started, admin, aside>>
    /\ \E fault \in Faults :
          IF ~chapDir
          THEN /\ UNCHANGED meta
               /\ Finish(i, Render(500, "error"), req[i])
          ELSE IF fault # ""
          THEN /\ meta' = [meta EXCEPT ![req[i].root] = Torn]
               /\ Finish(i, Render(500, "error"), req[i])
          ELSE /\ meta' = [meta EXCEPT ![req[i].root] = JSONstringify(EditRecord(req[i]))]
               /\ Finish(i, Redirect(ChaptersPage),
                         [req[i] EXCEPT !.wrote = Some(EditRecord(req[i])),
                                        !.readBack = Some(getChapterDetails(meta', req[i].root))])

(***************************************************************************)
(* Delete chapter: POST /admin/stories/:f/chapters/delete/:chapter_filename_root *)
(***************************************************************************)
\* The request arrives; getChapterDetails gives the content path.  An error
\* sends the handler to its catch block, which lists the chapters again.
StartDelete(i) ==
    /\ Free(i)
    /\ started' = started + 1
    /\ UNCHANGED <<store, admin, aside>>
    /\ \E root \in Roots :
          LET d == getChapterDetails(meta, root)
              r0 == [Idle EXCEPT !.kind = "delete", !.root = root, !.name = Name(root, "html")]
              r == [r0 EXCEPT !.sawMeta = Some(meta[root]), !.details = Some(d)]
          IN  IF d.st = "throw"
                   THEN req' = [Settled EXCEPT ![i] = [r EXCEPT !.pc = "readdir"]]
              ELSE IF d.st = "ok"
                   THEN req' = [Settled EXCEPT ![i] = [r EXCEPT !.pc = "d_content", !.existing = d.val]]
              ELSE req' = [Settled EXCEPT ![i] = [r EXCEPT !.pc = "d_meta"]]

\* The unlink of the content file with every failure tolerated: the handler
\* goes on to the metadata file whatever happened.
UnlinkContentTolerant(i, faults) ==
    /\ req[i].pc = "d_content"
    /\ UNCHANGED <<catalog, chapDir, meta, started, admin, aside>>
    /\ \E fault \in faults :
          /\ content' = IF fault # "" THEN content
                        ELSE [content EXCEPT ![req[i].existing.content_path.file.root] = NoContent]
          /\ req' = [Settled EXCEPT ![i].pc = "d_meta"]

\* fs.unlink(htmlFilePath): a file already gone is tolerated; any other
\* failure (one of faults) is thrown again and sends the handler to its catch
\* block, which lists the chapters for the error page.
UnlinkContent(i, faults) ==
    /\ req[i].pc = "d_content"
    /\ UNCHANGED <<catalog, chapDir, meta, started, admin, aside>>
    /\ \E fault \in faults :
          IF fault # "" /\ ContentAt(content, req[i].existing.content_path).kind # "absent"
          THEN /\ UNCHANGED content
               /\ req' = [Settled EXCEPT ![i].pc = "readdir"]
          ELSE /\ content' = [content EXCEPT ![req[i].existing.content_path.file.root] = NoContent]
               /\ req' = [Settled EXCEPT ![i].pc = "d_meta"]

\* The unlink of the content file where no I/O failure is injected.
DeleteContent(i) == UnlinkContent(i, {""})

\* fs.unlink(jsonMetadataPath), redirect: a file already gone is tolerated.
DeleteMeta(i) ==
    /\ req[i].pc = "d_meta"
    /\ UNCHANGED <<catalog, chapDir, content, started, admin, aside>>
    /\ meta' = [meta EXCEPT ![req[i].root] = Absent]
    /\ Finish(i, Redirect(ChaptersPage), req[i])

\* The catch block: the chapter list is fetched again for the error page.
DeleteAfterList(i, r, res) ==
    IF res.st = "throw"
    THEN Finish(i, Render(500, "delete failed"), r)
    ELSE Finish(i, [Render(500, "delete failed") EXCEPT !.chapters = res.list], r)

(***************************************************************************)
(* The reader: GET /stories/:folder_name and                               *)
(* GET /stories/:folder_name/chapters/:chapter_filename_root               *)
(***************************************************************************)
StartList(i) ==
    /\ Free(i)
    /\ started' = started + 1
    /\ UNCHANGED <<store, admin, aside>>
    /\ LET r == [Idle EXCEPT !.kind = "list"]
       IN  IF getStoryByFolderName(catalog, Folder) = None
           THEN Finish(i, Render(404, "story not found"), r)
           ELSE req' = [Settled EXCEPT ![i] = [r EXCEPT !.pc = "readdir"]]

ListAfterList(i, r, res) ==
    IF res.st = "throw" THEN Finish(i, Render(500, "error"), r)
    ELSE Finish(i, [Render(200, "") EXCEPT !.chapters = res.list], r)

\* The request arrives; getChapterDetails reads the chapter's metadata.
StartChapter(i) ==
    /\ Free(i)
    /\ started' = started + 1
    /\ UNCHANGED <<store, admin, aside>>
    /\ \E root \in Roots :
          LET d == getChapterDetails(meta, root)
              r == [Idle EXCEPT !.kind = "chapter", !.root = root, !.name = Name(root, "html"),
                                !.sawMeta = Some(meta[root]), !.details = Some(d)]
          IN  IF d.st = "throw" THEN Finish(i, Render(500, "error"), r)
              ELSE IF d.st = "undefined" THEN Finish(i, Render(404, "chapter not found"), r)
              ELSE req' = [Settled EXCEPT ![i] = [r EXCEPT !.pc = "r_content", !.existing = d.val]]

\* readChapterContent(chapterMetadata.content_path)
ChapterContent(i) ==
    /\ req[i].pc = "r_content"
    /\ UNCHANGED <<store, started, admin, aside>>
    /\ \E fault \in Faults :
          LET c == readChapterContent(content, req[i].existing.content_path, fault)
              r == [req[i] EXCEPT !.sawContent = Some(ContentAt(content, req[i].existing.content_path)),
                                  !.contentResult = Some(c)]
          IN  IF c.st = "throw" THEN Finish(i, Render(500, "error"), r)
              ELSE req' = [Settled EXCEPT ![i] = [r EXCEPT !.pc = "readdir"]]

\* The neighbours of the displayed chapter in the list.
ChapterAfterList(i, r, res) ==
    IF res.st = "throw" THEN Finish(i, Render(500, "error"), r)
    ELSE LET idx == findIndex(res.list, r.existing.original_file_name)
         IN  Finish(i, [Render(200, "") EXCEPT !.chapters = res.list,
                                               !.metadata = Some(r.existing),
                                               !.previousChapter = previousChapter(res.list, idx),
                                               !.nextChapter = nextChapter(res.list, idx)], r)

(***************************************************************************)
(* getChaptersForStory, as its callers run it: the directory listing, then  *)
(* the reads of the listed files, then the caller's continuation.           *)
(***************************************************************************)
\* The caller goes on with the result of getChaptersForStory.
Return(i, r, res) ==
    LET r2 == [r EXCEPT !.chaptersResult = Some(res)]
    IN  CASE r.kind = "create" -> CreateAfterList(i, r2, res)
          [] r.kind = "edit" -> EditAfterList(i, r2, res)
          [] r.kind = "delete" -> DeleteAfterList(i, r2, res)
          [] r.kind = "list" -> ListAfterList(i, r2, res)
          [] r.kind = "chapter" -> ChapterAfterList(i, r2, res)

\* fs.readdir(storyChaptersDir) and the filter on '.json'.
ListDir(i) ==
    /\ req[i].pc = "readdir"
    /\ UNCHANGED <<store, started, admin, aside>>
    /\ LET r == [req[i] EXCEPT !.sawDir = IF chapDir THEN "yes" ELSE "no",
                               !.listed = JsonFiles(meta)]
       IN  IF ~chapDir THEN Return(i, r, CatchChapters("ENOENT"))
           ELSE IF JsonFiles(meta) = {} THEN Return(i, r, Chapters(<<>>))
           ELSE req' = [Settled EXCEPT ![i] = [r EXCEPT !.pc = "readfiles"]]

\* The rejection Promise.all can see first: that of any of the failing reads;
\* none ("") when every read and parse succeeds.
FirstRejections(m, files) ==
    IF Rejections(m, files) = {} THEN {""} ELSE Rejections(m, files)

\* The reads of the listed files, Promise.all, the sort and the catch clause.
ReadFiles(i) ==
    /\ req[i].pc = "readfiles"
    /\ UNCHANGED <<store, started, admin, aside>>
    /\ \E order \in Listings(req[i].listed), rejection \in FirstRejections(meta, req[i].listed) :
          Return(i, [req[i] EXCEPT !.order = order,
                                   !.sawRejections = Rejections(meta, req[i].listed)],
                 ReadChapters(meta, order, rejection))

(***************************************************************************)
(* The specification.                                                      *)
(***************************************************************************)
Next ==
    \E i \in Slots :
        \/ StartCreate(i) \/ CreateAccess(i) \/ CreateWriteContent(i) \/ CreateWriteMeta(i)
        \/ StartEdit(i) \/ EditDetails(i) \/ EditWriteContent(i) \/ EditWriteMeta(i)
        \/ StartDelete(i) \/ DeleteContent(i) \/ DeleteMeta(i)
        \/ StartList(i) \/ StartChapter(i) \/ ChapterContent(i)
        \/ ListDir(i) \/ ReadFiles(i)

Spec == Init /\ [][Next]_vars

(***************************************************************************)
(* The admin's chapter routes on their own, with I/O failures of the       *)
(* content file's unlink: the requests that write the chapter store.       *)
(***************************************************************************)
\* The unlink of the content file, failing with EIO or not.
DeleteContentOrFail(i) == UnlinkContent(i, Faults)

WriteNext ==
    \E i \in Slots :
        \/ StartCreate(i) \/ CreateAccess(i) \/ CreateWriteContent(i) \/ CreateWriteMeta(i)
        \/ StartEdit(i) \/ EditDetails(i) \/ EditWriteContent(i) \/ EditWriteMeta(i)
        \/ StartDelete(i) \/ DeleteContentOrFail(i) \/ DeleteMeta(i)
        \/ ListDir(i) \/ ReadFiles(i)

\* The catalog lists the modelled story, or the story has been deleted from
\* it (its files may remain).
WriteInit == InitWith({<<StoryX>>, <<>>})

WriteSpec == WriteInit /\ [][WriteNext]_vars

(***************************************************************************)
(* Properties.                                                             *)
(***************************************************************************)
\* The metadata files that hold a record.
Records == {r \in Roots : meta[r].kind = "json"}

\* The requests whose call of getChaptersForStory has just returned.
Listed == {i \in Slots : req[i].chaptersResult # None}

\* chapter_number of a is less than that of b, as JavaScript compares them.
Less(a, b) == ToNumber(a.chapter_number) < ToNumber(b.chapter_number)

\* C1: whatever the order of the directory listing, the list
\* getChaptersForStory returns is strictly ascending by chapter_number: each
\* record's chapter_number is less than its successor's.
C1_StrictlyAscending ==
    \A i \in Listed :
        LET list == req[i].chaptersResult[1].list
        IN  \A k \in 1..(Len(list) - 1) : Less(list[k], list[k + 1])

\* C2: under every interleaving of create-chapter and edit-chapter requests,
\* no two metadata records of the story have the same chapter_number.
C2_UniqueChapterNumber ==
    \A a, b \in Records :
        a # b => meta[a].val.chapter_number # meta[b].val.chapter_number

\* C3: under every interleaving of create-chapter, edit-chapter and
\* delete-chapter requests, no two metadata records of the story have the
\* same original_file_name.
C3_UniqueFileName ==
    \A a, b \in Records :
        a # b => meta[a].val.original_file_name # meta[b].val.original_file_name

\* C3's case: a create-chapter request has just written its record beside
\* another record, while an edit of that other chapter is under way.
C3_Witness ==
    \E i, j \in Slots :
        /\ req[i].kind = "create" /\ req[i].wrote # None
        /\ req[j].kind = "edit" /\ req[j].pc = "e_meta" /\ req[j].root # req[i].root
        /\ {req[i].root, req[j].root} \subseteq Records

\* The position (from 1) of the displayed chapter in the list of a chapter
\* page, 0 when the list does not hold it.
PositionIn(resp) ==
    LET hits == {k \in 1..Len(resp.chapters) :
                    resp.chapters[k].original_file_name = resp.metadata[1].original_file_name}
    IN  IF hits = {} THEN 0 ELSE CHOOSE k \in hits : \A j \in hits : k <= j

\* The chapter pages just rendered.
Pages == {i \in Slots : req[i].kind = "chapter" /\ req[i].pc = "done" /\ req[i].resp.status = 200}

\* C4: on a chapter page whose chapter is found at a position of the ordered
\* list, previousChapter is the element before it (none for the first) and
\* nextChapter the element after it (none for the last).
C4_Neighbours ==
    \A i \in Pages :
        LET resp == req[i].resp
            k == PositionIn(resp)
        IN  k > 0 =>
              /\ resp.previousChapter = IF k > 1 THEN Some(resp.chapters[k - 1]) ELSE None
              /\ resp.nextChapter = IF k < Len(resp.chapters) THEN Some(resp.chapters[k + 1])
                                    ELSE None

\* C4's case: the page of the second of three chapters, with both neighbours.
C4_Witness ==
    \E i \in Pages :
        /\ Len(req[i].resp.chapters) = 3 /\ PositionIn(req[i].resp) = 2
        /\ req[i].resp.previousChapter = Some(req[i].resp.chapters[1])
        /\ req[i].resp.nextChapter = Some(req[i].resp.chapters[3])

\* C5: getChaptersForStory returns the empty list, and does not fail, when
\* the chapter directory does not exist.
C5_AbsentDirectoryIsEmpty ==
    \A i \in Listed : req[i].sawDir = "no" => req[i].chaptersResult[1] = Chapters(<<>>)

\* C5's case: the story page served while the directory is absent.
C5_Witness ==
    \E i \in Listed :
        /\ req[i].sawDir = "no" /\ req[i].kind = "list"
        /\ req[i].resp.status = 200 /\ req[i].resp.chapters = <<>>

\* C6: getChaptersForStory returns the empty list only if the chapter
\* directory is absent or holds no .json file; with files listed it returns
\* the chapters or fails, also when a listed file is removed before it is read.
C6_EmptyOnlyWithoutFiles ==
    \A i \in Listed :
        req[i].chaptersResult[1] = Chapters(<<>>) => req[i].sawDir = "no" \/ req[i].listed = {}

\* The requests whose call of getChapterDetails has returned.
Detailed == {i \in Slots : req[i].details # None}

\* C7 as stated: getChapterDetails returns undefined if the metadata file is
\* absent and the parsed record of the file in every other case.
C7_RecordWheneverPresent ==
    \A i \in Detailed :
        IF req[i].sawMeta[1].kind = "absent" THEN req[i].details[1] = Undefined
        ELSE req[i].details[1] = Ok(req[i].sawMeta[1].val)

\* C7, amended: getChapterDetails returns undefined if the metadata file is
\* absent, the parsed record if the file holds JSON, and fails with the
\* error of the parse (never with undefined) if it holds anything else.
C7_DetailsByFile ==
    \A i \in Detailed :
        CASE req[i].sawMeta[1].kind = "absent" -> req[i].details[1] = Undefined
          [] req[i].sawMeta[1].kind = "json" -> req[i].details[1] = Ok(req[i].sawMeta[1].val)
          [] OTHER -> req[i].details[1].st = "throw" /\ req[i].details[1].code # "ENOENT"

\* C7's case: a chapter page asked for a chapter without a metadata file and
\* answered not found.
C7_Witness ==
    \E i \in Detailed :
        /\ req[i].kind = "chapter" /\ req[i].sawMeta[1].kind = "absent"
        /\ req[i].details[1] = Undefined /\ req[i].resp.status = 404

\* C8: after create-chapter or edit-chapter has written a metadata record,
\* getChapterDetails returns a record equal to it field for field.
C8_RoundTrip ==
    \A i \in Slots : req[i].wrote # None => req[i].readBack[1] = Ok(req[i].wrote[1])

\* The requests whose call of readChapterContent has returned.
ContentRead == {i \in Slots : req[i].contentResult # None}

\* C9: readChapterContent on a path without a file fails with the code
\* ENOENT, and no other outcome of it carries that code.
C9_NotFoundIsDistinct ==
    \A i \in ContentRead :
        req[i].sawContent[1].kind = "absent"
            <=> (req[i].contentResult[1].st = "throw" /\ req[i].contentResult[1].code = "ENOENT")

\* C9's case: the content file of a chapter with metadata is gone.
C9_Witness ==
    \E i \in ContentRead :
        /\ req[i].sawContent[1].kind = "absent"
        /\ req[i].contentResult[1] = ContentThrow("ENOENT")
        /\ req[i].resp.status = 500

\* C10: when a listed .json file cannot be parsed, getChaptersForStory fails:
\* it returns no list.
C10_ParseFailureFails ==
    \A i \in Listed :
        "SyntaxError" \in req[i].sawRejections => req[i].chaptersResult[1].st = "throw"

(***************************************************************************)
(* The story-level routes: the catalog data/stories.json and the chapter   *)
(* metadata directories.                                                   *)
(***************************************************************************)
\* Folder names of the model: that of the modelled story, another
\* well-formed one, and one the folder name check rejects.
OtherFolder == "my-story"
BadFolder == "My Story"
Folders == {Folder, OtherFolder}

\* The characters of a folder name.
Spell(name) ==
    CASE name = Folder -> <<"x">>
      [] name = OtherFolder -> <<"m", "y", "-", "s", "t", "o", "r", "y">>
      [] name = BadFolder -> <<"M", "y", " ", "S", "t", "o", "r", "y">>
      [] OTHER -> <<>>

\* [a-z0-9]
LowerAlnum ==
    {"a", "b", "c", "d", "e", "f", "g", "h", "i", "j", "k", "l", "m", "n", "o", "p", "q",
     "r", "s", "t", "u", "v", "w", "x", "y", "z",
     "0", "1", "2", "3", "4", "5", "6", "7", "8", "9"}

\* /^[a-z0-9]+(?:-[a-z0-9]+)*$/ : runs of [a-z0-9] joined by single hyphens.
folderNameRegex(name) ==
    LET c == Spell(name)
    IN  /\ Len(c) > 0
        /\ \A k \in 1..Len(c) : c[k] \in LowerAlnum \cup {"-"}
        /\ c[1] # "-" /\ c[Len(c)] # "-"
        /\ \A k \in 1..(Len(c) - 1) : ~(c[k] = "-" /\ c[k + 1] = "-")

\* A catalog entry.
Story(id, title, folder, description) ==
    [id |-> id, title |-> title, folder_name |-> folder, description |-> description]

\* The catalog entry of the other story.
OtherStory == Story(OtherFolder, "Other", OtherFolder, "d")

\* Reverse of a sequence.
Reverse(s) == [k \in 1..Len(s) |-> s[Len(s) + 1 - k]]

\* getStories returning the entries last to first.
getStoriesReversed(cat) == Reverse(cat)

\* getStories answering with the first catalog when the file lists no story.
getStoriesDefault(cat) ==
    IF Len(cat) = 0 THEN <<StoryX>> ELSE [k \in 1..Len(cat) |-> cat[k]]

\* getStories: the entries of data/stories.json as JSON.parse yields them,
\* one after the other in the order of the file's array.
getStories(cat) == [k \in 1..Len(cat) |-> cat[k]]

\* A middleware that lets every request pass.
isAuthenticatedAlways(user) == TRUE

\* isAuthenticated: req.session && req.session.user (user is "" for a
\* session without user).
isAuthenticated(user) == user # ""

\* The session users of the model: none, or the logged-in admin.
Users == {"", "admin"}

\* The routes registered with isAuthenticated.
AdminRoutes ==
    {"POST /admin/stories/:story_folder_name/chapters/delete/:chapter_filename_root",
     "POST /admin/stories/:story_folder_name/chapters/edit/:chapter_filename_root",
     "GET /admin/stories/:story_folder_name/chapters/edit/:chapter_filename_root",
     "POST /admin/stories/:story_folder_name/chapters",
     "GET /admin/stories/:story_folder_name/chapters/new",
     "GET /admin/stories/:story_folder_name/chapters",
     "POST /admin/stories/delete/:folder_name",
     "POST /admin/stories/edit/:folder_name",
     "GET /admin/stories/edit/:folder_name",
     "GET /admin",
     "GET /admin/stories/new",
     "POST /admin/stories"}

\* The directory data/chapters/<folder>/ exists.
DirExists(folder) == IF folder = Folder THEN chapDir ELSE folder \in otherDirs

\* Forms of create-story: two well-formed ones, one without title, one whose
\* folder name the check rejects.
StoryForm(title, folder, description) ==
    [title |-> title, folder_name |-> folder, description |-> description]
CreateStoryForms ==
    {StoryForm("T", Folder, "d"), StoryForm("T", OtherFolder, ""),
     StoryForm("", OtherFolder, ""), StoryForm("T", BadFolder, "")}
\* Forms of edit-story; the page's read-only folder_name field is submitted
\* too and may hold anything.
EditStoryForms == {StoryForm("T2", "z", "d2"), StoryForm("", "z", "d2")}

\* The state before the story-level requests: processContent has written the
\* catalog and a directory for each of its stories, with or without chapters.
StoryInit ==
    /\ catalog \in {<<StoryX>>, <<StoryX, OtherStory>>}
    /\ chapDir = TRUE
    /\ otherDirs = {catalog[k].folder_name : k \in 1..Len(catalog)} \ {Folder}
    /\ \E imported \in {{}, Roots} :
          /\ meta = [r \in Roots |-> IF r \in imported
                                     THEN JSONstringify(ImportedChapter(r)) ELSE Absent]
          /\ content = [r \in Roots |-> IF r \in imported THEN Html("<p>0</p>") ELSE NoContent]
    /\ started = 0
    /\ req = [i \in Slots |-> Idle]
    /\ adm = [i \in Slots |-> NoAdmin]
    /\ AsideAtRest

\* A slot is free for a new request; of the free slots the lowest takes it.
AdmFree(i) ==
    /\ adm[i].pc \in {"idle", "done"}
    /\ \A j \in Slots : j < i => adm[j].pc \notin {"idle", "done"}
    /\ started < MaxRequests

\* The slots once a response has been delivered.
AdmSettled == [j \in Slots |-> IF adm[j].pc = "done" THEN NoAdmin ELSE adm[j]]

\* The request of slot i ends with response r.
AdmFinish(i, r, upd) ==
    adm' = [AdmSettled EXCEPT ![i] = [upd EXCEPT !.pc = "done", !.resp = r]]

\* The request of slot i goes on at pc.
AdmGoto(i, pc, upd) ==
    adm' = [AdmSettled EXCEPT ![i] = [upd EXCEPT !.pc = pc]]

AdminRedirect(loc) == [NoAdminResp EXCEPT !.status = 302, !.location = loc]
AdminRender(status, error, stories) ==
    [NoAdminResp EXCEPT !.status = status, !.error = error, !.stories = stories]

\* A request as it arrives.
Arrived(kind, route, user, folder, form) ==
    [NoAdmin EXCEPT !.kind = kind, !.route = route, !.user = user, !.folder = folder,
                    !.title = form.title, !.description = form.description,
                    !.bodyFolder = form.folder_name]

\* A request to a route behind isAuthenticated from a session the
\* middleware turns away: res.redirect('/login'), and next() is not called.
RedirectToLogin(i) ==
    /\ AdmFree(i)
    /\ started' = started + 1
    /\ UNCHANGED <<store, req, otherDirs, aside>>
    /\ \E route \in AdminRoutes, user \in Users :
          /\ ~isAuthenticated(user)
          /\ AdmFinish(i, AdminRedirect("/login"),
                       Arrived("guard", route, user, "", StoryForm("", "", "")))

\* GET /: the home page lists what getStories returns.
HomePage(i) ==
    /\ AdmFree(i)
    /\ started' = started + 1
    /\ UNCHANGED <<store, req, otherDirs, aside>>
    /\ AdmFinish(i, AdminRender(200, "", getStories(catalog)),
                 [Arrived("home", "GET /", "", "", StoryForm("", "", ""))
                     EXCEPT !.sawCatalog = Some(catalog)])

\* fs.mkdir(dir, { recursive: true }): the directory exists afterwards, with
\* whatever it held.
MakeDir(folder) ==
    IF folder = Folder THEN chapDir' = TRUE /\ UNCHANGED otherDirs
    ELSE otherDirs' = otherDirs \cup {folder} /\ UNCHANGED chapDir

\* fs.rm(dir, { recursive: true, force: true }): the directory and its files
\* are gone.
RemoveDir(folder) ==
    IF folder = Folder
    THEN chapDir' = FALSE /\ meta' = [r \in Roots |-> Absent] /\ UNCHANGED otherDirs
    ELSE otherDirs' = otherDirs \ {folder} /\ UNCHANGED <<chapDir, meta>>

\* A uniqueness check that finds nothing.
FolderTakenNever(stories, folder) == FALSE

\* existingStories.some(story => story.folder_name === folder_name)
FolderTaken(stories, folder) == \E k \in 1..Len(stories) : stories[k].folder_name = folder

\* newStory
NewStory(r) == Story(r.folder, r.title, r.folder, r.description)

\* A write that applies a new story to the catalog as it is at the write.
WrittenCatalogMerged(r, cat) ==
    IF r.kind = "create-story" THEN Append(cat, NewStory(r)) ELSE r.existingStories

\* fs.writeFile(storiesFilePath, JSON.stringify(existingStories, null, 4)):
\* the file becomes the request's local copy, whatever it holds (cat) by then.
WrittenCatalog(r, cat) == r.existingStories

(***************************************************************************)
(* Create story: POST /admin/stories                                       *)
(***************************************************************************)
\* The request passes the guard; the checks of the form, getStories, the
\* uniqueness check and existingStories.push(newStory).
StartCreateStory(i) ==
    /\ AdmFree(i)
    /\ started' = started + 1
    /\ UNCHANGED <<store, req, otherDirs, aside>>
    /\ \E user \in Users, f \in CreateStoryForms :
          /\ isAuthenticated(user)
          /\ LET r == Arrived("create-story", "POST /admin/stories", user, f.folder_name, f)
                 existing == getStories(catalog)
             IN  IF r.title = "" \/ r.folder = ""
                 THEN AdmFinish(i, AdminRender(200, "required", <<>>), r)
                 ELSE IF ~folderNameRegex(r.folder)
                 THEN AdmFinish(i, AdminRender(200, "folder name", <<>>), r)
                 ELSE IF FolderTaken(existing, r.folder)
                 THEN AdmFinish(i, AdminRender(200, "exists", <<>>),
                                [r EXCEPT !.sawCatalog = Some(catalog)])
                 ELSE AdmGoto(i, "cs_write",
                              [r EXCEPT !.sawCatalog = Some(catalog),
                                        !.existingStories = Append(existing, NewStory(r))])

\* fs.writeFile(storiesFilePath, JSON.stringify(existingStories, null, 4))
CreateStoryWrite(i) ==
    /\ adm[i].pc = "cs_write"
    /\ catalog' = WrittenCatalog(adm[i], catalog)
    /\ UNCHANGED <<chapDir, meta, content, started, req, otherDirs, aside>>
    /\ AdmGoto(i, "cs_mkdir", [adm[i] EXCEPT !.wroteCatalog = TRUE])

\* A catch block that takes the new entry out of the catalog again.
CreateStoryCatchRollback(cat, r) ==
    SelectSeq(cat, LAMBDA st : st.folder_name # r.folder)

\* The catalog after the catch block of create-story, which renders the form
\* with an error and writes nothing.
CreateStoryCatch(cat, r) == cat

\* fs.mkdir of the chapter directory, then the redirect; a failing mkdir ends
\* in the catch block.
CreateStoryMkdir(i) ==
    /\ adm[i].pc = "cs_mkdir"
    /\ UNCHANGED <<meta, content, started, req, aside>>
    /\ \E fault \in Faults :
          IF fault = ""
          THEN /\ MakeDir(adm[i].folder)
               /\ UNCHANGED catalog
               /\ AdmFinish(i, AdminRedirect("/admin"), adm[i])
          ELSE /\ catalog' = CreateStoryCatch(catalog, adm[i])
               /\ UNCHANGED <<chapDir, otherDirs>>
               /\ AdmFinish(i, AdminRender(500, "error", <<>>), adm[i])

(***************************************************************************)
(* Edit story: POST /admin/stories/edit/:folder_name                       *)
(***************************************************************************)
\* findIndex(story => story.folder_name === original_folder_name), 0 when
\* there is none (positions count from 1).
StoryIndex(stories, folder) ==
    LET hits == {k \in 1..Len(stories) : stories[k].folder_name = folder}
    IN  IF hits = {} THEN 0 ELSE CHOOSE k \in hits : \A j \in hits : k <= j

\* An update that takes the folder name of the body over as well.
UpdateStoryWithFolder(st, r) ==
    [st EXCEPT !.title = r.title, !.description = r.description,
               !.folder_name = r.bodyFolder]

\* existingStories[storyIndex].title = title; .description = description || ""
UpdateStory(st, r) == [st EXCEPT !.title = r.title, !.description = r.description]

\* The request passes the guard; the check of the title, getStories,
\* findIndex and the update of the entry in the local copy.
StartEditStory(i) ==
    /\ AdmFree(i)
    /\ started' = started + 1
    /\ UNCHANGED <<store, req, otherDirs, aside>>
    /\ \E user \in Users, folder \in Folders, f \in EditStoryForms :
          /\ isAuthenticated(user)
          /\ LET r == Arrived("edit-story", "POST /admin/stories/edit/:folder_name",
                              user, folder, f)
                 existing == getStories(catalog)
                 idx == StoryIndex(existing, folder)
             IN  IF r.title = "" THEN AdmFinish(i, AdminRender(200, "required", <<>>), r)
                 ELSE IF idx = 0
                 THEN AdmFinish(i, AdminRender(404, "not found", <<>>),
                                [r EXCEPT !.sawCatalog = Some(catalog)])
                 ELSE AdmGoto(i, "es_write",
                              [r EXCEPT !.sawCatalog = Some(catalog),
                                        !.existingStories =
                                            [existing EXCEPT ![idx] = UpdateStory(@, r)]])

\* fs.writeFile of the catalog, then the redirect.
EditStoryWrite(i) ==
    /\ adm[i].pc = "es_write"
    /\ catalog' = WrittenCatalog(adm[i], catalog)
    /\ UNCHANGED <<chapDir, meta, content, started, req, otherDirs, aside>>
    /\ AdmFinish(i, AdminRedirect("/admin"), [adm[i] EXCEPT !.wroteCatalog = TRUE])

(***************************************************************************)
(* Delete story: POST /admin/stories/delete/:folder_name                   *)
(***************************************************************************)
\* A removal that cuts the list off at the entry of the folder.
WithoutFolderAndAfter(stories, folder) ==
    SubSeq(stories, 1, StoryIndex(stories, folder) - 1)

\* existingStories.filter(story => story.folder_name !== folder_name)
WithoutFolder(stories, folder) == SelectSeq(stories, LAMBDA st : st.folder_name # folder)

\* The request passes the guard; getStories and the filter.  The catalog is
\* written only if the filter removed an entry.
StartDeleteStory(i) ==
    /\ AdmFree(i)
    /\ started' = started + 1
    /\ UNCHANGED <<store, req, otherDirs, aside>>
    /\ \E user \in Users, folder \in Folders :
          /\ isAuthenticated(user)
          /\ LET existing == getStories(catalog)
                 r == [Arrived("delete-story", "POST /admin/stories/delete/:folder_name",
                               user, folder, StoryForm("", "", ""))
                          EXCEPT !.sawCatalog = Some(catalog),
                                 !.existingStories = WithoutFolder(existing, folder)]
             IN  IF Len(r.existingStories) < Len(existing) THEN AdmGoto(i, "ds_write", r)
                 ELSE AdmGoto(i, "ds_access", r)

\* fs.writeFile(storiesFilePath, JSON.stringify(existingStories, null, 4))
DeleteStoryWrite(i) ==
    /\ adm[i].pc = "ds_write"
    /\ catalog' = WrittenCatalog(adm[i], catalog)
    /\ UNCHANGED <<chapDir, meta, content, started, req, otherDirs, aside>>
    /\ AdmGoto(i, "ds_access", [adm[i] EXCEPT !.wroteCatalog = TRUE])

\* fs.access(chapterDirPath): ENOENT ends the request with the redirect.
DeleteStoryAccess(i) ==
    /\ adm[i].pc = "ds_access"
    /\ UNCHANGED <<store, started, req, otherDirs, aside>>
    /\ IF DirExists(adm[i].folder) THEN AdmGoto(i, "ds_rm", adm[i])
       ELSE AdmFinish(i, AdminRedirect("/admin"), adm[i])

\* fs.rm of the chapter directory, then the redirect; a failing rm ends in
\* the outer catch block, which renders the dashboard with getStories.
DeleteStoryRm(i) ==
    /\ adm[i].pc = "ds_rm"
    /\ UNCHANGED <<catalog, content, started, req, aside>>
    /\ \E fault \in Faults :
          IF fault = ""
          THEN /\ RemoveDir(adm[i].folder)
               /\ AdmFinish(i, AdminRedirect("/admin"), adm[i])
          ELSE /\ UNCHANGED <<chapDir, meta, otherDirs>>
               /\ AdmFinish(i, AdminRender(500, "error", getStories(catalog)), adm[i])

(***************************************************************************)
(* The specification of the story-level routes.                            *)
(***************************************************************************)
StoryNext ==
    \E i \in Slots :
        \/ RedirectToLogin(i) \/ HomePage(i)
        \/ StartCreateStory(i) \/ CreateStoryWrite(i) \/ CreateStoryMkdir(i)
        \/ StartEditStory(i) \/ EditStoryWrite(i)
        \/ StartDeleteStory(i) \/ DeleteStoryWrite(i) \/ DeleteStoryAccess(i)
        \/ DeleteStoryRm(i)

StorySpec == StoryInit /\ [][StoryNext]_vars

(***************************************************************************)
(* Properties of the story-level routes.                                   *)
(***************************************************************************)
\* The home pages just rendered.
HomePages == {i \in Slots : adm[i].kind = "home" /\ adm[i].pc = "done"}

\* C11: getStories returns exactly the entries of the catalog file, in file
\* order, each with its id, title, folder_name and description unchanged.
C11_StoriesInFileOrder ==
    \A i \in HomePages :
        LET cat == adm[i].sawCatalog[1]
            got == adm[i].resp.stories
        IN  /\ Len(got) = Len(cat)
            /\ \A k \in 1..Len(cat) :
                  /\ got[k].id = cat[k].id /\ got[k].title = cat[k].title
                  /\ got[k].folder_name = cat[k].folder_name
                  /\ got[k].description = cat[k].description

\* C11's case: the home page of a catalog of two different stories.
C11_Witness ==
    \E i \in HomePages :
        /\ Len(adm[i].sawCatalog[1]) = 2
        /\ adm[i].sawCatalog[1][1] # adm[i].sawCatalog[1][2]
        /\ adm[i].resp.stories[1] = adm[i].sawCatalog[1][1]

\* C12: a request to a route behind isAuthenticated whose session has no
\* user is answered at once with a redirect to /login, and the step leaves
\* the catalog, the metadata files, the directories and the content files
\* unchanged.
C12_GuardedRoutes ==
    [][\A i \in Slots :
          (adm'[i] # adm[i] /\ adm'[i].route \in AdminRoutes /\ adm'[i].user = "")
              => /\ adm'[i].pc = "done"
                 /\ adm'[i].resp = AdminRedirect("/login")
                 /\ UNCHANGED <<catalog, chapDir, meta, content, otherDirs>>]_vars

\* C12's case: create-story asked for without a user, with stories in the
\* catalog.
C12_Witness ==
    \E i \in Slots :
        /\ adm[i].kind = "guard" /\ adm[i].route = "POST /admin/stories"
        /\ adm[i].user = "" /\ adm[i].resp.location = "/login"
        /\ Len(catalog) > 0

\* What a request that read the catalog snap writes back: snap with the
\* request's own change and nothing else.
OwnChange(r, snap) ==
    CASE r.kind = "create-story" ->
            snap \o <<[id |-> r.folder, title |-> r.title, folder_name |-> r.folder,
                       description |-> r.description]>>
      [] r.kind = "edit-story" ->
            [k \in 1..Len(snap) |->
                IF snap[k].folder_name = r.folder
                   /\ \A j \in 1..(k - 1) : snap[j].folder_name # r.folder
                THEN [id |-> snap[k].id, title |-> r.title,
                      folder_name |-> snap[k].folder_name, description |-> r.description]
                ELSE snap[k]]
      [] OTHER -> SelectSeq(snap, LAMBDA st : st.folder_name # r.folder)

\* The step of slot i writes the catalog.
WritesCatalog(i) == ~adm[i].wroteCatalog /\ adm'[i].wroteCatalog

\* C13: a catalog write of create-story, edit-story or delete-story makes
\* the catalog exactly the writer's own modified copy of what it read, so of
\* two requests that both read before either wrote, the catalog is what the
\* later writer wrote and the earlier writer's change is lost.
C13_LastWriterWins ==
    [][\A i \in Slots :
          WritesCatalog(i) => catalog' = OwnChange(adm[i], adm[i].sawCatalog[1])]_vars

\* C13's case: two requests read the same catalog, both wrote, and the story
\* the earlier one created is not in the catalog the later one left.
C13_Witness ==
    \E i, j \in Slots :
        /\ i # j /\ adm[i].wroteCatalog /\ adm[j].wroteCatalog
        /\ adm[i].sawCatalog = adm[j].sawCatalog
        /\ adm[i].kind = "create-story" /\ adm[i].pc = "cs_mkdir"
        /\ catalog = adm[j].existingStories
        /\ ~FolderTaken(catalog, adm[i].folder)

\* C14: from a catalog with distinct folder names, no interleaving of
\* create-story, edit-story and delete-story puts two entries with the same
\* folder_name into the catalog.
C14_UniqueFolderName ==
    \A a, b \in 1..Len(catalog) : a # b => catalog[a].folder_name # catalog[b].folder_name

\* C14's case: two create-story requests for the same new folder both passed
\* the uniqueness check and both wrote.
C14_Witness ==
    \E i, j \in Slots :
        /\ i # j /\ adm[i].kind = "create-story" /\ adm[j].kind = "create-story"
        /\ adm[i].folder = adm[j].folder
        /\ adm[i].wroteCatalog /\ adm[j].wroteCatalog
        /\ FolderTaken(catalog, adm[i].folder)

\* cat with only the title and the description of the entry of folder
\* replaced: the same entries in the same order, ids and folder names kept.
OnlyTitleAndDescription(cat, folder, title, description) ==
    [k \in 1..Len(cat) |->
        IF cat[k].folder_name = folder
        THEN [id |-> cat[k].id, title |-> title, folder_name |-> cat[k].folder_name,
              description |-> description]
        ELSE cat[k]]

\* The step of slot i is the catalog write of a successful edit-story.
EditStorySucceeds(i) ==
    /\ adm[i].kind = "edit-story" /\ adm[i].pc = "es_write"
    /\ adm'[i].pc = "done" /\ adm'[i].resp = AdminRedirect("/admin")

\* C15 as stated: a successful edit-story for folder F changes only the title
\* and the description of F's entry of the catalog: every other entry, the
\* number and the order of the entries stay as they were before its write.
C15_EditChangesOnlyEntry ==
    [][\A i \in Slots :
          EditStorySucceeds(i)
              => catalog' = OnlyTitleAndDescription(catalog, adm[i].folder, adm[i].title,
                                                    adm[i].description)]_vars

\* C15, amended: a successful edit-story for folder F writes the catalog it
\* read with only the title and the description of F's entry replaced (id,
\* folder_name, number and order of entries as read, the folder_name of the
\* body ignored); what other requests wrote since its read is overwritten.
C15_EditChangesOnlyEntryRead ==
    [][\A i \in Slots :
          EditStorySucceeds(i)
              => catalog' = OnlyTitleAndDescription(adm[i].sawCatalog[1], adm[i].folder,
                                                    adm[i].title, adm[i].description)]_vars

\* C15's case: an edit-story of the second of two stories has succeeded with
\* a body whose folder_name differs from the story's.
C15_Witness ==
    \E i \in Slots :
        /\ adm[i].kind = "edit-story" /\ adm[i].pc = "done"
        /\ adm[i].resp = AdminRedirect("/admin")
        /\ adm[i].folder = OtherFolder /\ adm[i].bodyFolder # adm[i].folder
        /\ Len(catalog) = 2 /\ catalog[2].folder_name = OtherFolder
        /\ catalog[2].title = adm[i].title /\ catalog[1] = StoryX

\* The create-story requests just answered with the redirect to /admin.
StoriesCreated ==
    {i \in Slots : /\ adm[i].kind = "create-story" /\ adm[i].pc = "done"
                   /\ adm[i].resp = AdminRedirect("/admin")}

\* C16: when create-story for folder F has succeeded, the catalog is the
\* catalog it read with the record {id: F, title, folder_name: F,
\* description} appended, and F's chapter directory exists and holds no
\* metadata file.
C16_CreateStoryAppendsEmpty ==
    \A i \in StoriesCreated :
        /\ catalog = Append(adm[i].sawCatalog[1],
                            [id |-> adm[i].folder, title |-> adm[i].title,
                             folder_name |-> adm[i].folder,
                             description |-> adm[i].description])
        /\ DirExists(adm[i].folder)
        /\ adm[i].folder = Folder => JsonFiles(meta) = {}

\* The delete-story requests just answered with the redirect to /admin.
StoriesDeleted ==
    {i \in Slots : /\ adm[i].kind = "delete-story" /\ adm[i].pc = "done"
                   /\ adm[i].resp = AdminRedirect("/admin")}

\* C17 as stated: when delete-story for folder F has completed with the
\* redirect, the catalog has no entry of F and its other entries are those
\* the request read, in their order, and F's chapter directory does not exist.
C17_DeleteStoryRemoves ==
    \A i \in StoriesDeleted :
        /\ ~FolderTaken(catalog, adm[i].folder)
        /\ catalog = SelectSeq(adm[i].sawCatalog[1],
                               LAMBDA st : st.folder_name # adm[i].folder)
        /\ ~DirExists(adm[i].folder)

\* The step of slot i belongs to a delete-story request.
DeleteStoryStep(i) == adm'[i] # adm[i] /\ adm'[i].kind = "delete-story"

\* C17, amended: delete-story for folder F writes the catalog it read
\* without the entries of F, the others unchanged and in their order; the
\* step that ends it with the redirect leaves F's chapter directory absent
\* (removed, or found absent); and none of its steps removes or modifies a
\* content file.  An entry of F that another request writes after the
\* catalog write stays.
C17_DeleteStoryRemovesRead ==
    [][\A i \in Slots :
          DeleteStoryStep(i)
              => /\ content' = content
                 /\ WritesCatalog(i) =>
                        catalog' = SelectSeq(adm[i].sawCatalog[1],
                                             LAMBDA st : st.folder_name # adm[i].folder)
                 /\ (adm'[i].pc = "done" /\ adm'[i].resp = AdminRedirect("/admin"))
                        => ~(IF adm[i].folder = Folder THEN chapDir'
                             ELSE adm[i].folder \in otherDirs')]_vars

\* C17's case: delete-story of the modelled story has completed; the
\* directory with its chapters is gone and the content files are still there.
C17_Witness ==
    \E i \in StoriesDeleted :
        /\ adm[i].folder = Folder /\ adm[i].wroteCatalog
        /\ ~FolderTaken(catalog, Folder) /\ ~chapDir
        /\ \A r \in Roots : content[r] # NoContent

\* The step of slot i ends a create-story or a delete-story in its catch
\* block, after its catalog write.
Aborts(i) ==
    /\ adm[i].pc \in {"cs_mkdir", "ds_rm"} /\ adm[i].wroteCatalog
    /\ adm'[i].pc = "done" /\ adm'[i].resp.status = 500

\* C20: a create-story or delete-story that fails between its catalog write
\* and its directory operation leaves the catalog and the directories as they
\* are: nothing is rolled back, so the story stays listed without a
\* directory, or the directory stays without a catalog entry.
C20_NoRollback ==
    [][\A i \in Slots :
          Aborts(i) => UNCHANGED <<catalog, chapDir, otherDirs, meta, content>>]_vars

\* C20's case: a create-story has failed at mkdir; its story is listed in
\* the catalog and has no chapter directory.
C20_Witness ==
    \E i \in Slots :
        /\ adm[i].kind = "create-story" /\ adm[i].pc = "done" /\ adm[i].resp.status = 500
        /\ FolderTaken(catalog, adm[i].folder) /\ ~DirExists(adm[i].folder)

(***************************************************************************)
(* Further properties of the chapter routes.                               *)
(***************************************************************************)
\* C18: every chapter metadata record in the store, whether written by
\* create-chapter, by edit-chapter or by processContent, has a chapter_number
\* that is a positive integer.
C18_PositiveInteger ==
    \A r \in Records :
        meta[r].val.chapter_number.t = "num" /\ meta[r].val.chapter_number.n > 0

\* The requests whose metadata write has completed.
Writers == {i \in Slots : req[i].wrote # None}

\* C19 as stated: each metadata file <digits>.json is named by the
\* chapter_number of its record: the digits denote that number.
C19_NamedByNumber ==
    \A r \in Records : meta[r].val.chapter_number = parseInt10(r)

\* C19, amended: each metadata file <digits>.json is named by the
\* original_file_name of its record, <digits>.html with at least 4 digits;
\* the chapter_number is a separate field of the form and need not be the
\* number the digits denote.
C19_NamedByFileName ==
    /\ \A r \in Records :
          /\ meta[r].val.original_file_name = Name(r, "html")
          /\ DigitPrefix(r) = r /\ TextLen(r) >= MinNameDigits
    /\ \A i \in Writers :
          /\ req[i].wrote[1].original_file_name = Name(req[i].root, "html")
          /\ meta[req[i].root].kind = "json"
                => meta[req[i].root].val.original_file_name
                       = req[i].wrote[1].original_file_name

\* C19's case: create-chapter has written 0001.json for the form with
\* original_file_name 0001.html and chapter_number 5.
C19_Witness ==
    \E i \in Writers :
        /\ req[i].kind = "create" /\ req[i].root = R1
        /\ meta[R1].kind = "json"
        /\ meta[R1].val.chapter_number = Num(5)
        /\ meta[R1].val.original_file_name = Name(R1, "html")

(***************************************************************************)
(* Effects and frames of the chapter routes.                               *)
(***************************************************************************)
\* The request of slot i takes a step of its handler after its arrival.
Steps(i) == req[i].pc \notin {"idle", "done"} /\ req'[i] # req[i]

\* The step with which the delete-chapter request of slot i redirects.
DeleteRedirects(i) ==
    /\ req[i].kind = "delete" /\ req[i].pc = "d_meta"
    /\ req'[i].pc = "done" /\ req'[i].resp.status = 302

C22_EditChangesOnlyTitleNumberText ==
    [][\A i \in Slots :
          req[i].kind = "edit" /\ Steps(i) =>
              /\ catalog' = catalog /\ chapDir' = chapDir
              /\ \A r \in Roots \ {req[i].root} :
                     meta'[r] = meta[r] /\ content'[r] = content[r]
              /\ req[i].pc \notin {"e_content", "e_meta"} =>
                     meta' = meta /\ content' = content
              /\ req[i].pc = "e_content" =>
                     meta' = meta /\ content'[req[i].root] = Html(req[i].html)
              /\ req[i].pc = "e_meta" /\ req'[i].resp.status = 302 =>
                     /\ content' = content
                     /\ meta'[req[i].root].kind = "json"
                     /\ LET new == meta'[req[i].root].val
                            old == req[i].existing
                        IN  /\ new.original_file_name = old.original_file_name
                            /\ new.content_path = old.content_path
                            /\ new.title = req[i].title
                            /\ new.chapter_number = JsonNumber(parseInt10(req[i].num))
                            /\ meta[req[i].root].kind = "json" =>
                                   /\ new.original_file_name
                                          = meta[req[i].root].val.original_file_name
                                   /\ new.content_path = meta[req[i].root].val.content_path]_vars

\* C22's case: the edit of chapter 0001 whose form named 0002.html has
\* redirected; 0001.json holds the new title under the old file name and
\* path, and 0001.html the new text.
C22_Witness ==
    \E i \in Slots :
        /\ req[i].kind = "edit" /\ req[i].pc = "done" /\ req[i].resp.status = 302
        /\ req[i].root = R1 /\ req[i].name = Name(R2, "html")
        /\ meta[R1].kind = "json" /\ meta[R1].val.title = "A"
        /\ meta[R1].val.original_file_name = Name(R1, "html")
        /\ meta[R1].val.content_path = PathJoin(Folder, Name(R1, "html"))
        /\ content[R1] = Html("<p>a</p>")

\* A request of the given kind arrives in slot i.
Arrives(i, kind) == req[i].pc \in {"idle", "done"} /\ req'[i].kind = kind

\* C23: a create-chapter request that is rejected by a check (story not in
\* the catalog, a missing field, a number that is no positive integer, a bad
\* file name, a number or a file name in use, a content file on disk) creates
\* and modifies no file: every step of a create-chapter request up to and
\* including its last check leaves catalog, directory, metadata and content
\* as they are, and a rejection never follows one of its writes.
C23_RejectedCreateWritesNothing ==
    [][\A i \in Slots :
          /\ Arrives(i, "create") => store' = store
          /\ req[i].kind = "create" /\ Steps(i) =>
                /\ req[i].pc \notin {"c_content", "c_meta"} => store' = store
                /\ req'[i].pc = "done" /\ req'[i].resp.status \in {200, 404} =>
                       req[i].pc \notin {"c_content", "c_meta"}]_vars

\* C23's case: a create-chapter for 0001.html was rejected at its last
\* check, the content file being on disk (written by another request, whose
\* metadata write is still to come); no 0001.json was made.
C23_Witness ==
    \E i \in Slots :
        /\ req[i].kind = "create" /\ req[i].pc = "done"
        /\ req[i].resp.status = 200 /\ req[i].resp.error = "content exists"
        /\ req[i].root = R1
        /\ content[R1].kind = "text" /\ meta[R1].kind = "absent"

\* C24: create-chapter never overwrites an existing content file: the step
\* in which a create-chapter request writes <story>/<original_file_name>
\* finds no such file, so of the requests for one file name at most one
\* writes the file.
C24_NeverOverwrites ==
    [][\A i \in Slots :
          req[i].kind = "create" /\ req[i].pc = "c_content" /\ Steps(i) =>
              content[req[i].root].kind = "absent"]_vars

(***************************************************************************)
(* The reader's navigation.                                                *)
(***************************************************************************)
\* C25: on a chapter page nextChapter is set only if the displayed chapter
\* is in the chapter list and has a successor there; when the list does not
\* hold the displayed chapter, previousChapter and nextChapter are both null.
C25_NextOnlyWithSuccessor ==
    \A i \in Pages :
        LET resp == req[i].resp
            k == PositionIn(resp)
        IN  /\ resp.nextChapter # None => k > 0 /\ k < Len(resp.chapters)
            /\ k = 0 => resp.previousChapter = None /\ resp.nextChapter = None

(***************************************************************************)
(* The key of a chapter.                                                   *)
(***************************************************************************)
\* C26: in every state reached through create-chapter, edit-chapter and
\* delete-chapter from the store processContent made, the record a metadata
\* file <K>.json of story S holds has original_file_name <K>.html and
\* content_path S/<K>.html, so getChapterDetails(S, K) returns the record
\* whose original_file_name is <K>.html.
C26_KeyedByFileName ==
    /\ \A r \in Records :
          /\ meta[r].val.original_file_name = Name(r, "html")
          /\ meta[r].val.content_path = PathJoin(Folder, Name(r, "html"))
    /\ \A r \in Roots :
          getChapterDetails(meta, r).st = "ok" =>
              getChapterDetails(meta, r).val.original_file_name = Name(r, "html")

\* C26's case: of the three chapters processContent imported, 0001 was
\* deleted and created anew (the request has just redirected), 0002 was
\* edited and 0003 is as imported.
C26_Witness ==
    \E i \in Slots :
        /\ req[i].kind = "create" /\ req[i].pc = "done" /\ req[i].wrote # None
        /\ req[i].root = R1
        /\ Records = Roots
        /\ meta[R1].val.title = "A"
        /\ meta[R2].val.title = "A"
        /\ meta[R3].val.title = "Untitled Chapter"

(***************************************************************************)
(* A deleted story stays deleted.                                          *)
(***************************************************************************)
\* The folders the catalog cat lists.
FoldersOf(cat) == {cat[k].folder_name : k \in 1..Len(cat)}

\* A delete-story request for folder f has just completed with its redirect.
DeleteStoryCompleted(f) ==
    \E j \in Slots :
        /\ adm[j].kind = "delete-story" /\ adm[j].folder = f
        /\ adm[j].pc = "done" /\ adm[j].resp.status = 302

\* C27 as stated: once a delete-story request for folder F has completed, F
\* stays absent from the catalog until a create-story for F succeeds: the
\* step after the completion puts F into the catalog only as the catalog
\* write of a create-story for F, whatever the other requests read before.
C27_StaysDeleted ==
    [][\A f \in Folders :
          DeleteStoryCompleted(f) /\ f \notin FoldersOf(catalog)
              /\ f \in FoldersOf(catalog') =>
                  \E i \in Slots :
                      /\ adm[i].kind = "create-story" /\ adm[i].folder = f
                      /\ WritesCatalog(i)]_vars

\* C27, amended: a folder F that is absent from the catalog comes back only
\* with the catalog write of a create-story for F or of a request that read
\* the catalog while it still listed F (an edit-story for F, or a request
\* for another folder); a request that read the catalog after the deletion
\* never brings F back.
C27_BackOnlyByCreateOrStaleWrite ==
    [][\A f \in Folders :
          f \notin FoldersOf(catalog) /\ f \in FoldersOf(catalog') =>
              \E i \in Slots :
                  /\ WritesCatalog(i)
                  /\ catalog' = adm[i].existingStories
                  /\ \/ adm[i].kind = "create-story" /\ adm[i].folder = f
                     \/ f \in FoldersOf(adm[i].sawCatalog[1])]_vars

\* C27's case: a delete-story for x has written the catalog without x, and
\* then an edit-story for x that had read the catalog before wrote it: x is
\* in the catalog again.
C27_Witness ==
    \E i, j \in Slots :
        /\ adm[j].kind = "delete-story" /\ adm[j].folder = Folder /\ adm[j].wroteCatalog
        /\ Folder \notin FoldersOf(adm[j].existingStories)
        /\ adm[i].kind = "edit-story" /\ adm[i].folder = Folder /\ adm[i].wroteCatalog
        /\ Folder \in FoldersOf(catalog)

(***************************************************************************)
(* Login: GET and POST /login, GET /logout, and a guarded route, for one   *)
(* browser session.                                                        *)
(***************************************************************************)
\* The stores with no request under way.
StoresAtRest ==
    /\ catalog = <<StoryX>> /\ chapDir = FALSE
    /\ meta = [r \in Roots |-> Absent] /\ content = [r \in Roots |-> NoContent]
    /\ started = 0 /\ req = [i \in Slots |-> Idle]
    /\ otherDirs = {} /\ adm = [i \in Slots |-> NoAdmin]

\* process.env.ADMIN_USERNAME and process.env.ADMIN_PASSWORD: set or not.
AdminUsernames == {None, Some("admin")}
AdminPasswords == {None, Some("secret")}

\* The fields of a login form: missing from the body, empty, right or wrong.
UsernameFields == {None, Some(""), Some("admin"), Some("guest")}
PasswordFields == {None, Some(""), Some("secret"), Some("guess")}

LoginInit ==
    /\ StoresAtRest
    /\ load = NoLoad /\ page = NoPage
    /\ \E u \in AdminUsernames, pw \in AdminPasswords :
          login = [NoLogin EXCEPT !.adminUsername = u, !.adminPassword = pw]

\* The session's request and its response.
Answered(l, route, username, password, status, location) ==
    [l EXCEPT !.route = route, !.username = username, !.password = password,
              !.status = status, !.location = location]

\* username === adminUsername && password === adminPassword
CredentialsMatch(username, password, adminUsername, adminPassword) ==
    username = adminUsername /\ password = adminPassword

\* POST /login
PostLogin ==
    /\ UNCHANGED <<store, started, req, admin, load, page>>
    /\ \E username \in UsernameFields, password \in PasswordFields :
          IF CredentialsMatch(username, password, login.adminUsername, login.adminPassword)
          THEN login' = [Answered(login, "POST /login", username, password, 302, "/admin")
                            EXCEPT !.user = Some(login.adminUsername)]
          ELSE login' = Answered(login, "POST /login", username, password, 200, "")

\* GET /login
GetLogin ==
    /\ UNCHANGED <<store, started, req, admin, load, page>>
    /\ login' = Answered(login, "GET /login", None, None, 200, "")

\* GET /logout: req.session.destroy
GetLogout ==
    /\ UNCHANGED <<store, started, req, admin, load, page>>
    /\ login' = [Answered(login, "GET /logout", None, None, 302, "/") EXCEPT !.user = None]

\* What isAuthenticated is given: "" for a session without user.
SessionUser(l) == IF l.user = None THEN "" ELSE "user"

\* GET /admin behind isAuthenticated: the dashboard, or the redirect to /login.
GetAdmin ==
    /\ UNCHANGED <<store, started, req, admin, load, page>>
    /\ IF isAuthenticated(SessionUser(login))
       THEN login' = Answered(login, "GET /admin", None, None, 200, "")
       ELSE login' = Answered(login, "GET /admin", None, None, 302, "/login")

LoginNext == PostLogin \/ GetLogin \/ GetLogout \/ GetAdmin

LoginSpec == LoginInit /\ [][LoginNext]_vars

\* C28: a session becomes authenticated (session.user set) only through a
\* POST /login that supplies a username and a password, both equal to the
\* configured ADMIN_USERNAME and ADMIN_PASSWORD; a login that supplies
\* neither field, and any request while the credentials are not configured,
\* does not authenticate the session.
C28_OnlyConfiguredCredentials ==
    [][login.user = None /\ login'.user # None =>
          /\ login'.route = "POST /login"
          /\ login'.username # None /\ login'.password # None
          /\ login.adminUsername # None /\ login.adminPassword # None
          /\ login'.username = login.adminUsername
          /\ login'.password = login.adminPassword]_vars

(***************************************************************************)
(* The evaluation of app.js when node loads it: its top-level statements,  *)
(* one after the other.  A const name is bound when its declaration has    *)
(* been evaluated; evaluating it before is a ReferenceError, which ends    *)
(* the evaluation.                                                         *)
(***************************************************************************)
\* A top-level statement: its line, what it does, the names it binds and the
\* names it evaluates (the names in the body of a handler are evaluated when
\* the handler runs, not here).
Statement(line, does, binds, evaluates) ==
    [line |-> line, does |-> does, binds |-> binds, evaluates |-> evaluates]

\* app.get or app.post behind isAuthenticated, and without it.
Guarded(line) == Statement(line, "route", {}, {"app", "isAuthenticated"})
Open(line) == Statement(line, "route", {}, {"app"})

\* The top-level statements of app.js in the order of the file.
Statements ==
    << Statement(1, "const", {"express"}, {"require"}),
       Statement(2, "const", {"path"}, {"require"}),
       Statement(3, "const", {"session"}, {"require"}),
       Statement(5, "const", {"app"}, {"express"}),
       Statement(6, "port", {"port"}, {"process"}),
       Statement(10, "dotenv", {}, {"require"}),
       Statement(13, "set", {}, {"app"}),
       Statement(14, "set", {}, {"app", "path", "__dirname"}),
       Statement(17, "session", {}, {"app", "session", "process"}),
       Statement(29, "use", {}, {"app", "express"}),
       Statement(30, "use", {}, {"app", "express"}),
       Statement(33, "use", {}, {"app", "express"}),
       Statement(35, "const", {"getStories"}, {"require"}),
       Open(38), Guarded(49), Guarded(119), Guarded(228), Guarded(283),
       Guarded(424), Guarded(466), Guarded(507), Guarded(572), Guarded(632),
       Statement(669, "const", {"getStoryByFolderName", "getChaptersForStory",
                                "getChapterDetails", "readChapterContent"}, {"require"}),
       Open(672), Open(705), Open(764), Open(768), Open(781),
       Statement(792, "const", {"isAuthenticated"}, {"require"}),
       Guarded(795), Guarded(816),
       Statement(826, "const", {"fs"}, {"require"}),
       Guarded(829),
       Statement(903, "listen", {}, {"app", "port"}) >>

\* The names node binds before the first statement.
Globals == {"require", "process", "__dirname", "console", "module"}

\* value || fallback, for a variable of the environment.
OrElse(value, fallback) == IF value = None \/ value = Some("") THEN fallback ELSE value[1]

\* require('dotenv').config(): the variables of the .env file that
\* process.env does not hold yet.
DotenvConfig(env, file) ==
    Env(IF env.PORT = None THEN file.PORT ELSE env.PORT,
        IF env.SESSION_SECRET = None THEN file.SESSION_SECRET ELSE env.SESSION_SECRET,
        IF env.NODE_ENV = None THEN file.NODE_ENV ELSE env.NODE_ENV)

LoadInit ==
    /\ StoresAtRest
    /\ login = NoLogin /\ page = NoPage
    /\ \E port \in {None, Some("8080")}, filePort \in {None, Some("9090")},
          secret \in {None, Some("s3cret")}, nodeEnv \in {None, Some("production")} :
          load = [NoLoad EXCEPT !.pc = 1, !.bound = Globals, !.outcome = "loading",
                                !.env = Env(port, None, nodeEnv),
                                !.dotenv = Env(filePort, secret, None)]

\* What the statement st does to the state of the load.
Evaluated(l, st) ==
    LET l2 == [l EXCEPT !.pc = @ + 1, !.bound = @ \cup st.binds]
    IN  CASE st.does = "port" -> [l2 EXCEPT !.port = OrElse(l.env.PORT, "3000")]
          [] st.does = "dotenv" -> [l2 EXCEPT !.env = DotenvConfig(l.env, l.dotenv)]
          [] st.does = "session" ->
                [l2 EXCEPT !.secret = OrElse(l.env.SESSION_SECRET, "default_secret_for_dev_only"),
                           !.secure = (l.env.NODE_ENV = Some("production"))]
          [] st.does = "route" -> [l2 EXCEPT !.routes = @ + 1]
          [] st.does = "listen" -> [l2 EXCEPT !.outcome = "listening"]
          [] OTHER -> l2

\* node evaluates the next statement.
LoadStep ==
    /\ load.outcome = "loading" /\ load.pc \in 1..Len(Statements)
    /\ UNCHANGED <<store, started, req, admin, login, page>>
    /\ LET st == Statements[load.pc]
       IN  IF st.evaluates \subseteq load.bound
           THEN load' = Evaluated(load, st)
           ELSE load' = [load EXCEPT !.outcome = "ReferenceError"]

LoadNext == LoadStep

LoadSpec == LoadInit /\ [][LoadNext]_vars

\* C29: loading app.js runs to app.listen: every name a top-level statement
\* evaluates (isAuthenticated in the registrations of the admin routes) is
\* bound before the statement is evaluated, and the evaluation does not end
\* in a ReferenceError.
C29_BoundBeforeUse ==
    /\ load.outcome # "ReferenceError"
    /\ load.outcome = "loading" /\ load.pc \in 1..Len(Statements) =>
           Statements[load.pc].evaluates \subseteq load.bound

(***************************************************************************)
(* The patch scripts apply_tts_button.sh, process_selected_files.sh and    *)
(* batch_process.sh on one HTML file.  A file is its lines, and a line is  *)
(* what the patterns of grep and awk find in it.                           *)
(***************************************************************************)
\* Lines of a file at most (before a script adds its own).
MaxLines == 3

\* A line: whether it holds class="pagination justify-content-center",
\* </ul>, class="content mt-3", </body>, id="ttsButton", function sendToTTS().
Line(pagination, ulEnd, contentDiv, bodyEnd, button, script) ==
    [pagination |-> pagination, ulEnd |-> ulEnd, contentDiv |-> contentDiv,
     bodyEnd |-> bodyEnd, button |-> button, script |-> script]

PlainLine == Line(FALSE, FALSE, FALSE, FALSE, FALSE, FALSE)
\* $BUTTON_HTML and $SCRIPT_JS as awk prints them (the script block as one line).
BUTTON_HTML == Line(FALSE, FALSE, FALSE, FALSE, TRUE, FALSE)
SCRIPT_JS == Line(FALSE, FALSE, FALSE, FALSE, FALSE, TRUE)

\* The lines of the pages of the model: text, the opening of a pagination
\* list, a pagination list on one line, </ul>, the content div, </body>, and
\* a button or a script that is there already.
Lines ==
    {PlainLine,
     Line(TRUE, FALSE, FALSE, FALSE, FALSE, FALSE),
     Line(TRUE, TRUE, FALSE, FALSE, FALSE, FALSE),
     Line(FALSE, TRUE, FALSE, FALSE, FALSE, FALSE),
     Line(FALSE, FALSE, TRUE, FALSE, FALSE, FALSE),
     Line(FALSE, FALSE, FALSE, TRUE, FALSE, FALSE),
     BUTTON_HTML, SCRIPT_JS}

\* A file, and the file of no bytes.
File(lines, eol) == [lines |-> lines, eol |-> eol]
EmptyFile == File(<<>>, TRUE)

\* What awk wrote: every line it prints ends with a newline.
Printed(out) == File(out, TRUE)

\* grep that finds nothing, whatever the file holds.
grepNever(f) == FALSE

\* grep -q 'id="ttsButton"' "$file"
grepButton(f) == \E k \in 1..Len(f.lines) : f.lines[k].button

\* grep -q 'function sendToTTS()' "$file"
grepScript(f) == \E k \in 1..Len(f.lines) : f.lines[k].script

\* The awk program of apply_tts_button.sh that inserts the button, from line
\* k on, with its variables in v and its output so far in out.
RECURSIVE applyButtonAwk(_, _, _, _)
applyButtonAwk(ls, k, v, out) ==
    IF k > Len(ls) THEN out
    ELSE LET l == ls[k]
         IN  IF l.pagination
             THEN applyButtonAwk(ls, k + 1,
                      IF ~v.first_pagination_ul_found
                      THEN [v EXCEPT !.in_pagination_block = TRUE] ELSE v,
                      Append(out, l))
             ELSE IF v.in_pagination_block /\ l.ulEnd /\ ~v.pagination_block_ended
             THEN \* getline next_line: the next line, nothing at the end of the file
                  LET next_line == IF k < Len(ls) THEN ls[k + 1] ELSE PlainLine
                  IN  applyButtonAwk(ls, k + 2,
                          [v EXCEPT !.first_pagination_ul_found = TRUE,
                                    !.in_pagination_block = FALSE,
                                    !.inserted = TRUE, !.pagination_block_ended = TRUE],
                          out \o <<l, BUTTON_HTML, next_line>>)
             ELSE LET twice == IF v.in_pagination_block /\ l.ulEnd THEN <<l>> ELSE <<>>
                  IN  IF ~v.inserted /\ l.contentDiv /\ ~v.pagination_block_ended
                      THEN applyButtonAwk(ls, k + 1, [v EXCEPT !.inserted = TRUE],
                                          out \o twice \o <<BUTTON_HTML, l>>)
                      ELSE applyButtonAwk(ls, k + 1, v, out \o twice \o <<l>>)

\* The awk program of process_selected_files.sh that inserts the button.
RECURSIVE selectedButtonAwk(_, _, _, _)
selectedButtonAwk(ls, k, v, out) ==
    IF k > Len(ls) THEN out
    ELSE LET l == ls[k]
         IN  IF l.pagination
             THEN selectedButtonAwk(ls, k + 1, [v EXCEPT !.first_pagination_found = TRUE],
                                    Append(out, l))
             ELSE IF v.first_pagination_found /\ ~v.inserted /\ l.contentDiv
             THEN selectedButtonAwk(ls, k + 1, [v EXCEPT !.inserted = TRUE],
                                    out \o <<BUTTON_HTML, l>>)
             ELSE selectedButtonAwk(ls, k + 1, v, Append(out, l))

\* The awk program of batch_process.sh that should insert the button: its
\* line 88, `if (getline ...) > 0) print ...`, has a ")" too many, so awk
\* reports a syntax error and prints nothing, whatever the file holds.
batchButtonAwk(ls) == <<>>

\* The awk program that inserts the script before each line with </body>.
RECURSIVE scriptAwk(_, _, _)
scriptAwk(ls, k, out) ==
    IF k > Len(ls) THEN out
    ELSE IF ls[k].bodyEnd THEN scriptAwk(ls, k + 1, out \o <<SCRIPT_JS, ls[k]>>)
    ELSE scriptAwk(ls, k + 1, Append(out, ls[k]))

\* mv "$tmp" "$file" under [ -s "$tmp" ]: an empty output leaves the file.
MoveIfNotEmpty(out, f) == IF out = <<>> THEN f ELSE Printed(out)

\* mv "$tmp" "$file" whatever the output is.
Move(out) == IF out = <<>> THEN EmptyFile ELSE Printed(out)

\* The script step of apply_tts_button.sh and process_selected_files.sh.
AddScript(f) ==
    IF grepScript(f) THEN f ELSE MoveIfNotEmpty(scriptAwk(f.lines, 1, <<>>), f)

\* One file under apply_tts_button.sh.
ApplyTtsButton(f) ==
    AddScript(IF grepButton(f) THEN f
              ELSE MoveIfNotEmpty(
                       applyButtonAwk(f.lines, 1,
                           [inserted |-> FALSE, pagination_block_ended |-> FALSE,
                            first_pagination_ul_found |-> FALSE,
                            in_pagination_block |-> FALSE], <<>>), f))

\* One file under process_selected_files.sh.
ProcessSelectedFiles(f) ==
    AddScript(IF grepButton(f) THEN f
              ELSE MoveIfNotEmpty(
                       selectedButtonAwk(f.lines, 1,
                           [inserted |-> FALSE, first_pagination_found |-> FALSE], <<>>), f))

\* One file under batch_process.sh: cp or awk into the temporary file, then mv.
BatchProcess(f) ==
    LET f1 == IF grepButton(f) THEN f ELSE Move(batchButtonAwk(f.lines))
    IN  IF grepScript(f1) THEN f1 ELSE Move(scriptAwk(f1.lines, 1, <<>>))

\* The patch scripts.
Scripts == {"apply_tts_button.sh", "process_selected_files.sh", "batch_process.sh"}
Patch(script, f) ==
    CASE script = "apply_tts_button.sh" -> ApplyTtsButton(f)
      [] script = "process_selected_files.sh" -> ProcessSelectedFiles(f)
      [] script = "batch_process.sh" -> BatchProcess(f)

\* The files of at most n lines.
FilesUpTo(n) ==
    {EmptyFile} \cup
    UNION {{File(ls, eol) : ls \in [1..m -> Lines], eol \in BOOLEAN} : m \in 1..n}

PatchInit ==
    /\ StoresAtRest
    /\ login = NoLogin /\ load = NoLoad
    /\ \E f \in FilesUpTo(MaxLines) :
          page = [NoPage EXCEPT !.lines = f.lines, !.eol = f.eol]

\* The script runs on the page.
RunOn(script) ==
    LET f == Patch(script, File(page.lines, page.eol))
    IN  page' = [lines |-> f.lines, eol |-> f.eol, last |-> script,
                 again |-> (page.last = script)]

RunApplyTtsButton ==
    /\ UNCHANGED <<store, started, req, admin, login, load>>
    /\ RunOn("apply_tts_button.sh")

RunProcessSelectedFiles ==
    /\ UNCHANGED <<store, started, req, admin, login, load>>
    /\ RunOn("process_selected_files.sh")

RunBatchProcess ==
    /\ UNCHANGED <<store, started, req, admin, login, load>>
    /\ RunOn("batch_process.sh")

PatchNext == RunApplyTtsButton \/ RunProcessSelectedFiles \/ RunBatchProcess

PatchSpec == PatchInit /\ [][PatchNext]_vars

\* C30: the patch is idempotent: a script run on a file it has just
\* processed leaves the file identical, patch(patch(f)) = patch(f); it
\* adds no button to a file that holds id="ttsButton" and no script block
\* to a file that holds function sendToTTS().
C30_PatchIdempotent ==
    [][/\ page.last # "" /\ page'.last = page.last =>
              page'.lines = page.lines /\ page'.eol = page.eol
       /\ \A k \in 1..Len(page.lines) :
              /\ page.lines[k].button =>
                     Cardinality({j \in 1..Len(page'.lines) : page'.lines[j].button})
                         <= Cardinality({j \in 1..Len(page.lines) : page.lines[j].button})
              /\ page.lines[k].script =>
                     Cardinality({j \in 1..Len(page'.lines) : page'.lines[j].script})
                         <= Cardinality({j \in 1..Len(page.lines) : page.lines[j].script})]_vars

\* C30's case: apply_tts_button.sh has run twice in a row on a page with a
\* pagination list, a content div and </body>; the page holds the button
\* and the script block once each.
C30_Witness ==
    /\ page.last = "apply_tts_button.sh" /\ page.again
    /\ Cardinality({j \in 1..Len(page.lines) : page.lines[j].button}) = 1
    /\ Cardinality({j \in 1..Len(page.lines) : page.lines[j].script}) = 1
    /\ \E j \in 1..Len(page.lines) : page.lines[j].pagination
    /\ \E j \in 1..Len(page.lines) : page.lines[j].contentDiv
====
